---- MODULE Spec2Model ----
(***************************************************************************)
(* Model of the PTR trade-extraction parser (src/pdf_parser.py,            *)
(* class PelosiPTRParser).  A document is a sequence of text lines, a line *)
(* is a string, and every regular expression of the source is modelled by  *)
(* a matcher over the characters of the line.  Line indices are 0-based,   *)
(* as in the source: line index j is all_lines[j + 1] here.                *)
(***************************************************************************)
EXTENDS Integers, Sequences, FiniteSets, TLC

VARIABLES corpus, instances, parsesLeft, pc, lines, i, trades, candidates, origins, log
VARIABLES filings, tradeRows, downloads, notified, runsLeft, tpc, dry_run, test_mode, discord, queue
VARIABLES scraped
VARIABLES max_retries, attempt, responses, returned, npc
VARIABLES mfilings, mtradeRows, mnotified, mhandled, mrunsLeft, mpc, mdry_run, mwebhook, mqueue

parserVars == <<corpus, instances, parsesLeft, pc, lines, i, trades, candidates, origins, log>>
trackerVars == <<filings, tradeRows, downloads, notified, runsLeft, tpc, dry_run, test_mode, discord, queue, scraped>>
notifierVars == <<max_retries, attempt, responses, returned, npc>>
multiVars == <<mfilings, mtradeRows, mnotified, mhandled, mrunsLeft, mpc, mdry_run, mwebhook, mqueue>>
vars == <<parserVars, trackerVars, notifierVars, multiVars>>

(***************************************************************************)
(* Characters and strings                                                  *)
(***************************************************************************)
UpperSeq == "ABCDEFGHIJKLMNOPQRSTUVWXYZ"
LowerSeq == "abcdefghijklmnopqrstuvwxyz"
DigitSeq == "0123456789"

CharsOf(s) == {SubSeq(s, k, k) : k \in 1..Len(s)}

UpperSet == CharsOf(UpperSeq)
LowerSet == CharsOf(LowerSeq)
DigitSet == CharsOf(DigitSeq)
\* \s of the re module, restricted to the characters a line can hold
Whitespace == {" ", "\t"}
\* \w of the re module
WordSet == UpperSet \cup LowerSet \cup DigitSet \cup {"_"}
\* [\d,] and [0-9,]
NumSet == DigitSet \cup {","}
\* stands for the null byte '\x00', which a TLA+ string cannot hold
NUL == "~"

\* the character of s at 1-based position k, "" outside the string
Ch(s, k) == IF k >= 1 /\ k <= Len(s) THEN SubSeq(s, k, k) ELSE ""

\* the slice of s from position a to position b (1-based, inclusive), clipped
\* to the string as a Python slice is
Sub(s, a, b) ==
    LET lo == IF a < 1 THEN 1 ELSE a
        hi == IF b > Len(s) THEN Len(s) ELSE b
    IN  IF lo <= hi THEN SubSeq(s, lo, hi) ELSE ""

UpperMap == [c \in LowerSet |->
               SubSeq(UpperSeq, CHOOSE k \in 1..26 : SubSeq(LowerSeq, k, k) = c,
                                CHOOSE k \in 1..26 : SubSeq(LowerSeq, k, k) = c)]

RECURSIVE Upper(_)
\* str.upper()
Upper(s) ==
    IF Len(s) = 0 THEN ""
    ELSE IF Len(s) = 1 THEN (IF s \in LowerSet THEN UpperMap[s] ELSE s)
    ELSE Upper(SubSeq(s, 1, Len(s) \div 2)) \o Upper(SubSeq(s, Len(s) \div 2 + 1, Len(s)))

\* k in s
Contains(s, k) == \E a \in 1..(Len(s) - Len(k) + 1) : SubSeq(s, a, a + Len(k) - 1) = k

\* any(k in s for k in ks)
ContainsAny(s, ks) == \E k \in ks : Contains(s, k)

\* s.startswith(k)
StartsWith(s, k) == Len(s) >= Len(k) /\ SubSeq(s, 1, Len(k)) = k

\* s.endswith(k)
EndsWith(s, k) == Len(s) >= Len(k) /\ SubSeq(s, Len(s) - Len(k) + 1, Len(s)) = k

RECURSIVE LStrip(_)
LStrip(s) == IF s # "" /\ Head(s) \in Whitespace THEN LStrip(Tail(s)) ELSE s

RECURSIVE RStrip(_)
RStrip(s) ==
    IF s # "" /\ Ch(s, Len(s)) \in Whitespace THEN RStrip(Sub(s, 1, Len(s) - 1)) ELSE s

\* str.strip()
Strip(s) == RStrip(LStrip(s))

RECURSIVE RemoveNul(_)
\* s.replace('\x00', '')
RemoveNul(s) ==
    IF Len(s) = 0 THEN ""
    ELSE IF Len(s) = 1 THEN (IF s = NUL THEN "" ELSE s)
    ELSE RemoveNul(SubSeq(s, 1, Len(s) \div 2))
         \o RemoveNul(SubSeq(s, Len(s) \div 2 + 1, Len(s)))

RECURSIVE Join(_)
\* ' '.join(parts)
Join(parts) ==
    IF parts = <<>> THEN ""
    ELSE IF Len(parts) = 1 THEN parts[1]
    ELSE parts[1] \o " " \o Join(Tail(parts))

\* the least element of a non-empty set of integers
Min(S) == CHOOSE x \in S : \A y \in S : x <= y

(***************************************************************************)
(* Pieces of the regular expressions.  A matcher takes the line s and a    *)
(* 1-based start position and returns the position after the match, or 0.  *)
(***************************************************************************)
\* v under the local name that F gives it: a local variable of the code
Bind(v, F(_)) == F(v)

RECURSIVE SkipSet(_, _, _)
\* the position after the longest run of characters of set cs starting at p
SkipSet(s, p, cs) == IF Ch(s, p) \in cs THEN SkipSet(s, p + 1, cs) ELSE p

\* \s*  (greedy; what follows it in the patterns never starts with a space)
SkipWs(s, p) == SkipSet(s, p, Whitespace)

\* \s+
MatchWs1(s, p) == IF p > 0 /\ Ch(s, p) \in Whitespace THEN SkipWs(s, p) ELSE 0

\* \d{1,2}
MatchDigits12(s, p) ==
    IF p > 0 /\ Ch(s, p) \in DigitSet
    THEN (IF Ch(s, p + 1) \in DigitSet THEN p + 2 ELSE p + 1)
    ELSE 0

\* \d{1,2}/\d{1,2}/\d{4}  (a shorter first choice of \d{1,2} never helps: the
\* character after it would be a digit, not the slash)
MatchDate(s, p) ==
    Bind(MatchDigits12(s, p), LAMBDA a :
    Bind(IF a > 0 /\ Ch(s, a) = "/" THEN MatchDigits12(s, a + 1) ELSE 0, LAMBDA b :
    Bind(IF b > 0 /\ Ch(s, b) = "/" THEN b + 1 ELSE 0, LAMBDA c :
        IF c > 0 /\ \A k \in c..(c + 3) : Ch(s, k) \in DigitSet THEN c + 4 ELSE 0)))

\* \$[\d,]+
MatchDollar(s, p) ==
    IF p > 0 /\ Ch(s, p) = "$" /\ Ch(s, p + 1) \in NumSet
    THEN SkipSet(s, p + 1, NumSet) ELSE 0

\* \$[\d,]+(?:\s*-)?
MatchAmount(s, p) ==
    Bind(MatchDollar(s, p), LAMBDA q :
    Bind(SkipWs(s, q), LAMBDA d :
        IF q = 0 THEN 0 ELSE IF Ch(s, d) = "-" THEN d + 1 ELSE q))

\* \(([A-Z]{1,5})\)
MatchTicker(s, p) ==
    Bind(SkipSet(s, p + 1, UpperSet), LAMBDA q :
        IF p > 0 /\ Ch(s, p) = "(" /\ q - (p + 1) >= 1 /\ q - (p + 1) <= 5 /\ Ch(s, q) = ")"
        THEN q + 1 ELSE 0)

\* \s+(date)\s+(date)\s+(amount): the positions of the three groups, end = 0
\* when there is no match at p
MatchTail(s, p) ==
    Bind(MatchWs1(s, p), LAMBDA d1 :
    Bind(MatchDate(s, d1), LAMBDA e1 :
    Bind(MatchWs1(s, e1), LAMBDA d2 :
    Bind(MatchDate(s, d2), LAMBDA e2 :
    Bind(MatchWs1(s, e2), LAMBDA am :
    Bind(MatchAmount(s, am), LAMBDA en :
        IF d1 > 0 /\ e1 > 0 /\ d2 > 0 /\ e2 > 0 /\ am > 0 /\ en > 0
        THEN [end |-> en, trans_date |-> Sub(s, d1, e1 - 1),
              notif_date |-> Sub(s, d2, e2 - 1), amount |-> Sub(s, am, en - 1)]
        ELSE [end |-> 0]))))))

\* the last $ token of s instead of the first
SearchDollar_last(s) ==
    Bind({p \in 1..Len(s) : MatchDollar(s, p) > 0}, LAMBDA ps :
        IF ps = {} THEN ""
        ELSE Bind(CHOOSE p \in ps : \A q \in ps : q <= p, LAMBDA p :
                 Sub(s, p, MatchDollar(s, p) - 1)))

\* re.search(r'(\$[\d,]+)', s).group(1), "" when there is none
SearchDollar(s) ==
    Bind({p \in 1..Len(s) : MatchDollar(s, p) > 0}, LAMBDA ps :
        IF ps = {} THEN ""
        ELSE Bind(Min(ps), LAMBDA p : Sub(s, p, MatchDollar(s, p) - 1)))

\* re.search(r'\(([A-Z]{1,5})\)', s): start of the match and group 1
SearchTicker(s) ==
    Bind({p \in 1..Len(s) : MatchTicker(s, p) > 0}, LAMBDA ps :
        IF ps = {} THEN [start |-> 0]
        ELSE Bind(Min(ps), LAMBDA p :
                 [start |-> p, ticker |-> Sub(s, p + 1, MatchTicker(s, p) - 2)]))

(***************************************************************************)
(* The three structural patterns                                           *)
(***************************************************************************)
NoMatch == [matched |-> FALSE]

\* \s*\(([A-Z]{1,5})\)\s*([PS])\s+(date)\s+(date)\s+(amount), tried at e:
\* what follows the lazy group ([A-Z].*?) of the single-line pattern
Rest1(s, e) ==
    Bind(SkipWs(s, e), LAMBDA t0 :
    Bind(MatchTicker(s, t0), LAMBDA t1 :
    Bind(IF t1 > 0 THEN SkipWs(s, t1) ELSE 0, LAMBDA c :
    Bind(IF c > 0 /\ Ch(s, c) \in {"P", "S"} THEN MatchTail(s, c + 1) ELSE [end |-> 0],
         LAMBDA tl :
        IF tl.end > 0
        THEN [end |-> tl.end, ticker |-> Sub(s, t0 + 1, t1 - 2), action_code |-> Ch(s, c),
              trans_date |-> tl.trans_date, notif_date |-> tl.notif_date, amount |-> tl.amount]
        ELSE [end |-> 0]))))

\* re.search of
\* ([A-Z].*?)\s*\(([A-Z]{1,5})\)\s*([PS])\s+(\d{1,2}/\d{1,2}/\d{4})\s+(\d{1,2}/\d{1,2}/\d{4})\s+(\$[\d,]+(?:\s*-)?)
\* the leftmost capital letter from which a match exists, then the shortest
\* lazy group
SearchSingleLine(s) ==
    Bind({e \in 2..Len(s) : Rest1(s, e).end > 0}, LAMBDA es :
    Bind({a \in 1..Len(s) : Ch(s, a) \in UpperSet /\ \E e \in es : e > a}, LAMBDA ss :
        IF ss = {} THEN NoMatch
        ELSE Bind(Min(ss), LAMBDA a :
             Bind(Min({x \in es : x > a}), LAMBDA e :
             Bind(Rest1(s, e), LAMBDA r :
                 [matched |-> TRUE, asset_name |-> Sub(s, a, e - 1), ticker |-> r.ticker,
                  action_code |-> r.action_code, trans_date |-> r.trans_date,
                  notif_date |-> r.notif_date, amount |-> r.amount])))))

\* \s+([PS])(?:\s+\(partial\))?\s+(date)\s+(date)\s+(amount), tried at e: what
\* follows the lazy group ([A-Z][^P]*?) of the lead-token patterns; partial
\* tells whether the pattern has the optional (partial) group
RestLead(s, e, partial) ==
    Bind(MatchWs1(s, e), LAMBDA c :
    Bind(c > 0 /\ Ch(s, c) \in {"P", "S"}, LAMBDA okc :
    Bind(IF okc THEN MatchWs1(s, c + 1) ELSE 0, LAMBDA pp :
    Bind(IF partial /\ pp > 0 /\ Sub(s, pp, pp + 8) = "(partial)"
         THEN MatchTail(s, pp + 9) ELSE [end |-> 0], LAMBDA tlp :
    Bind(IF tlp.end > 0 THEN tlp ELSE IF okc THEN MatchTail(s, c + 1) ELSE [end |-> 0],
         LAMBDA tl :
        IF tl.end > 0
        THEN [end |-> tl.end, action_code |-> Ch(s, c), trans_date |-> tl.trans_date,
              notif_date |-> tl.notif_date, amount |-> tl.amount]
        ELSE [end |-> 0])))))

\* SP\s+([A-Z][^P]*?) and the rest, with the literal SP at position a
LeadAt(s, a, partial) ==
    Bind(MatchWs1(s, a + 2), LAMBDA b :
    Bind({k \in (b + 1)..Len(s) : Ch(s, k) = "P"}, LAMBDA ps :
    Bind(IF ps = {} THEN Len(s) ELSE Min(ps), LAMBDA lp :
    Bind({e \in (b + 1)..lp : RestLead(s, e, partial).end > 0}, LAMBDA es :
        IF Sub(s, a, a + 1) = "SP" /\ b > 0 /\ Ch(s, b) \in UpperSet /\ es # {}
        THEN Bind(Min(es), LAMBDA e :
             Bind(RestLead(s, e, partial), LAMBDA r :
                 [matched |-> TRUE, asset_name |-> Sub(s, b, e - 1),
                  action_code |-> r.action_code, trans_date |-> r.trans_date,
                  notif_date |-> r.notif_date, amount |-> r.amount]))
        ELSE NoMatch))))

\* re.search of a lead-token pattern: the leftmost SP from which it matches
SearchLead(s, partial) ==
    Bind({a \in 1..Len(s) : Sub(s, a, a + 1) = "SP" /\ LeadAt(s, a, partial).matched},
         LAMBDA as :
        IF as = {} THEN NoMatch ELSE LeadAt(s, Min(as), partial))

\* SP\s+([A-Z][^P]*?)\s+([PS])(?:\s+\(partial\))?\s+(date)\s+(date)\s+(amount)
SearchTickerNextLine(s) == SearchLead(s, TRUE)

\* SP\s+([A-Z][^P]*?)\s+([PS])\s+(date)\s+(date)\s+(amount)
SearchNoTicker(s) == SearchLead(s, FALSE)

(***************************************************************************)
(* Line Classifier                                                         *)
(***************************************************************************)
action_keywords == {"BUY", "SELL", "PURCHASE", "SALE", "ACQUIRED", "DISPOSED"}
asset_indicators == {"INC", "CORP", "LLC", "ETF", "STOCK", "SHARES"}
skip_keywords == {"DATE", "ASSET", "ACTION", "AMOUNT", "---", "TOTAL", "SUMMARY"}

ptr_pattern1(line) == SearchSingleLine(line).matched
ptr_pattern2(line) == SearchLead(line, TRUE).matched
ptr_pattern3(line) == SearchLead(line, FALSE).matched

\* variant with a seeded fault: the header check is dropped from the keyword fallback
is_trade_line_no_skip(line) ==
    LET line_upper == Upper(line)
        has_action == ContainsAny(line_upper, action_keywords)
        has_asset  == ContainsAny(line_upper, asset_indicators)
    IN  IF ptr_pattern1(line) THEN TRUE
        ELSE IF ptr_pattern2(line) THEN TRUE
        ELSE IF ptr_pattern3(line) THEN TRUE
        ELSE has_action /\ has_asset

\* variant with a seeded fault: the keywords are looked for in the line as written
is_trade_line_case_sensitive(line) ==
    LET has_action == ContainsAny(line, action_keywords)
        has_asset  == ContainsAny(line, asset_indicators)
        is_header  == ContainsAny(line, skip_keywords)
    IN  IF ptr_pattern1(line) THEN TRUE
        ELSE IF ptr_pattern2(line) THEN TRUE
        ELSE IF ptr_pattern3(line) THEN TRUE
        ELSE has_action /\ has_asset /\ ~is_header

is_trade_line(line) ==
    LET line_upper == Upper(line)
        has_action == ContainsAny(line_upper, action_keywords)
        has_asset  == ContainsAny(line_upper, asset_indicators)
        is_header  == ContainsAny(line_upper, skip_keywords)
    IN  IF ptr_pattern1(line) THEN TRUE
        ELSE IF ptr_pattern2(line) THEN TRUE
        ELSE IF ptr_pattern3(line) THEN TRUE
        ELSE has_action /\ has_asset /\ ~is_header

(***************************************************************************)
(* Context Resolver                                                        *)
(***************************************************************************)
\* TradeType
STOCK == "stock"
OPTION_CALL == "option_call"
OPTION_PUT == "option_put"

\* Python's None, where a string is expected
None == "<None>"
\* the result of a function that raised instead of returning
Raised == [exception |-> TRUE]
\* the result None of a function that returns a record
NoTrade == [none |-> TRUE]

\* min(a, b)
Least(a, b) == IF a < b THEN a ELSE b
\* max(a, b)
Greatest(a, b) == IF a > b THEN a ELSE b

\* all_lines[j] for a 0-based j within the list
LineAt(all_lines, j) == all_lines[j + 1]

\* whether all_lines[j] is within the list (it raises IndexError otherwise)
InRange(all_lines, j) == 0 <= j /\ j < Len(all_lines)

RECURSIVE JoinLines(_, _, _)
\* ' '.join(all_lines[a:b]) for 0-based a <= b <= len(all_lines)
JoinLines(all_lines, a, b) ==
    IF a >= b THEN ""
    ELSE IF a + 1 = b THEN LineAt(all_lines, a)
    ELSE LineAt(all_lines, a) \o " " \o JoinLines(all_lines, a + 1, b)

\* variant with a seeded fault: the context window is one line short
determine_trade_type_window4(all_lines, line_index) ==
    IF all_lines = <<>> THEN STOCK
    ELSE LET context_text ==
                 Upper(JoinLines(all_lines, line_index,
                                 Least(line_index + 4, Len(all_lines))))
         IN  IF ContainsAny(context_text, {"CALL", "PUT", "OPTION", "STRIKE", "EXPIRATION"})
             THEN (IF Contains(context_text, "CALL") THEN OPTION_CALL
                   ELSE IF Contains(context_text, "PUT") THEN OPTION_PUT
                   ELSE OPTION_CALL)
             ELSE STOCK

\* variant with a seeded fault: PUT is looked for before CALL
determine_trade_type_put_first(all_lines, line_index) ==
    IF all_lines = <<>> THEN STOCK
    ELSE LET context_text ==
                 Upper(JoinLines(all_lines, line_index,
                                 Least(line_index + 5, Len(all_lines))))
         IN  IF ContainsAny(context_text, {"CALL", "PUT", "OPTION", "STRIKE", "EXPIRATION"})
             THEN (IF Contains(context_text, "PUT") THEN OPTION_PUT
                   ELSE OPTION_CALL)
             ELSE STOCK

determine_trade_type_from_ptr_context(all_lines, line_index) ==
    IF all_lines = <<>> THEN STOCK
    ELSE LET context_text ==
                 Upper(JoinLines(all_lines, line_index,
                                 Least(line_index + 5, Len(all_lines))))
         IN  IF ContainsAny(context_text, {"CALL", "PUT", "OPTION", "STRIKE", "EXPIRATION"})
             THEN (IF Contains(context_text, "CALL") THEN OPTION_CALL
                   ELSE IF Contains(context_text, "PUT") THEN OPTION_PUT
                   ELSE OPTION_CALL)
             ELSE STOCK

RECURSIVE description_loop(_, _, _, _, _)
\* the for loop of _extract_description_for_trade from index k (0-based) up to
\* but excluding stop, with the parts collected so far
description_loop(all_lines, k, stop, description_parts, found_d_line) ==
    IF k >= stop THEN description_parts
    ELSE LET line == Strip(LineAt(all_lines, k))
             cleaned_line == Strip(RemoveNul(line))
         IN  IF StartsWith(cleaned_line, "D:")
             THEN description_loop(all_lines, k + 1, stop,
                      Append(description_parts, Strip(Sub(cleaned_line, 3, Len(cleaned_line)))),
                      TRUE)
             ELSE IF found_d_line
             THEN (IF StartsWith(cleaned_line, "SP ") \/ StartsWith(cleaned_line, "L:")
                   THEN description_parts
                   ELSE description_loop(all_lines, k + 1, stop,
                            Append(description_parts, cleaned_line), TRUE))
             ELSE IF StartsWith(cleaned_line, "SP ") THEN description_parts
             ELSE description_loop(all_lines, k + 1, stop, description_parts, FALSE)

\* variant with a seeded fault: the description window is one line short
extract_description_window8(all_lines, line_index) ==
    IF all_lines = <<>> THEN ""
    ELSE Join(description_loop(all_lines, line_index + 1,
                               Least(line_index + 9, Len(all_lines)), <<>>, FALSE))

extract_description_for_trade(all_lines, line_index) ==
    IF all_lines = <<>> THEN ""
    ELSE Join(description_loop(all_lines, line_index + 1,
                               Least(line_index + 10, Len(all_lines)), <<>>, FALSE))

(***************************************************************************)
(* Field Extractor: the structural shapes                                  *)
(***************************************************************************)
\* 'BUY' if action_code.upper() == 'P' else 'SELL'
action_of(action_code) == IF Upper(action_code) = "P" THEN "BUY" ELSE "SELL"

\* the record the three structural branches return
ptr_record(line, all_lines, line_index, asset_name, ticker, action_code, complete_amount, trans_date, notif_date) ==
    Bind(determine_trade_type_from_ptr_context(all_lines, line_index), LAMBDA trade_type :
        [asset_name |-> Strip(asset_name), ticker |-> Strip(ticker),
         trade_type |-> trade_type, action |-> action_of(action_code),
         amount_range |-> complete_amount, transaction_date |-> Strip(trans_date),
         notification_date |-> Strip(notif_date),
         description |-> IF trade_type \in {OPTION_CALL, OPTION_PUT}
                         THEN extract_description_for_trade(all_lines, line_index)
                         ELSE "",
         raw_line |-> Strip(line)])

\* amount.strip() + " " + amount_match.group(1) if amount_match, else amount.strip()
complete(amount, amount_match) ==
    IF amount_match # "" THEN Strip(amount) \o " " \o amount_match ELSE Strip(amount)

\* variant with a seeded fault: the no-ticker branch does not ask for a next line
parse_ptr_trade_line_body_no_next(line, all_lines, line_index) ==
    Bind(SearchSingleLine(line), LAMBDA match :
    Bind(SearchTickerNextLine(line), LAMBDA match2 :
    Bind(SearchNoTicker(line), LAMBDA match3 :
    Bind(all_lines # <<>> /\ line_index + 1 < Len(all_lines), LAMBDA has_next :
    Bind(IF has_next THEN LineAt(all_lines, line_index + 1) ELSE "", LAMBDA next_line :
    Bind(SearchDollar(next_line), LAMBDA amount_match :
    Bind(SearchTicker(next_line), LAMBDA ticker_match :
        IF match.matched
        THEN ptr_record(line, all_lines, line_index, match.asset_name, match.ticker,
                        match.action_code,
                        IF EndsWith(Strip(match.amount), "-") /\ has_next
                        THEN complete(match.amount, amount_match)
                        ELSE Strip(match.amount),
                        match.trans_date, match.notif_date)
        ELSE IF match2.matched /\ has_next /\ ticker_match.start > 0
        THEN ptr_record(line, all_lines, line_index, match2.asset_name,
                        ticker_match.ticker, match2.action_code,
                        complete(match2.amount, amount_match),
                        match2.trans_date, match2.notif_date)
        ELSE IF match3.matched
        THEN ptr_record(line, all_lines, line_index, match3.asset_name, "N/A",
                        match3.action_code,
                        IF Contains(match3.amount, " - ") \/ Contains(match3.amount, " -$")
                        THEN Strip(match3.amount)
                        ELSE complete(match3.amount, amount_match),
                        match3.trans_date, match3.notif_date)
        ELSE NoTrade)))))))

\* the body of the try block of _parse_ptr_trade_line
parse_ptr_trade_line_body(line, all_lines, line_index) ==
    Bind(SearchSingleLine(line), LAMBDA match :
    Bind(SearchTickerNextLine(line), LAMBDA match2 :
    Bind(SearchNoTicker(line), LAMBDA match3 :
    Bind(all_lines # <<>> /\ line_index + 1 < Len(all_lines), LAMBDA has_next :
    Bind(IF has_next THEN LineAt(all_lines, line_index + 1) ELSE "", LAMBDA next_line :
    Bind(SearchDollar(next_line), LAMBDA amount_match :
    Bind(SearchTicker(next_line), LAMBDA ticker_match :
        IF match.matched
        THEN ptr_record(line, all_lines, line_index, match.asset_name, match.ticker,
                        match.action_code,
                        IF EndsWith(Strip(match.amount), "-") /\ has_next
                        THEN complete(match.amount, amount_match)
                        ELSE Strip(match.amount),
                        match.trans_date, match.notif_date)
        ELSE IF match2.matched /\ has_next /\ ticker_match.start > 0
        THEN ptr_record(line, all_lines, line_index, match2.asset_name,
                        ticker_match.ticker, match2.action_code,
                        complete(match2.amount, amount_match),
                        match2.trans_date, match2.notif_date)
        ELSE IF match3.matched /\ has_next
        THEN ptr_record(line, all_lines, line_index, match3.asset_name, "N/A",
                        match3.action_code,
                        IF Contains(match3.amount, " - ") \/ Contains(match3.amount, " -$")
                        THEN Strip(match3.amount)
                        ELSE complete(match3.amount, amount_match),
                        match3.trans_date, match3.notif_date)
        ELSE NoTrade)))))))

\* try: ... except Exception: return None
TryExcept(result) == IF result = Raised THEN NoTrade ELSE result

parse_ptr_trade_line(line, all_lines, line_index) ==
    TryExcept(parse_ptr_trade_line_body(line, all_lines, line_index))

(***************************************************************************)
(* Field Extractor: the heuristic fallback                                 *)
(***************************************************************************)
extract_action(line) ==
    LET line_upper == Upper(line)
    IN  IF ContainsAny(line_upper, {"BUY", "PURCHASE", "ACQUIRED", "ACQUISITION"}) THEN "BUY"
        ELSE IF ContainsAny(line_upper, {"SELL", "SALE", "DISPOSED", "DISPOSAL"}) THEN "SELL"
        ELSE None

\* \b at position p: exactly one of the characters before and at p is a \w
Boundary(s, p) == (Ch(s, p - 1) \in WordSet) # (Ch(s, p) \in WordSet)

\* [A-Z]{2,} at p, ending where the rest of the asset pattern can go on: the
\* position after the word, or 0
MatchUpperWord(s, p) ==
    LET q == SkipSet(s, p, UpperSet)
    IN  IF p > 0 /\ q - p >= 2 /\ Ch(s, q) \notin WordSet THEN q ELSE 0

RECURSIVE ExtendWords(_, _)
\* (?:\s+[A-Z]{2,})* from position q, greedy, ending at a \b
ExtendWords(s, q) ==
    LET w == MatchUpperWord(s, MatchWs1(s, q))
    IN  IF w > 0 THEN ExtendWords(s, w) ELSE q

\* re.search(r'\b([A-Z]{2,}(?:\s+[A-Z]{2,})*)\b', s).group(1), "" when none
SearchAsset(s) ==
    LET ps == {p \in 1..Len(s) : Boundary(s, p) /\ MatchUpperWord(s, p) > 0}
    IN  IF ps = {} THEN ""
        ELSE Sub(s, Min(ps), ExtendWords(s, MatchUpperWord(s, Min(ps))) - 1)

\* the tuple (asset_name, ticker, trade_type), found = FALSE for None
extract_asset_and_type(line) ==
    LET line_upper == Upper(line)
        ticker_match == SearchTicker(line)
        asset_match == SearchAsset(line)
    IN  IF (Contains(line_upper, "CALL") \/ Contains(line_upper, "PUT"))
           /\ ticker_match.start > 0
        THEN [found |-> TRUE,
              asset_name |-> Strip(Sub(line, 1, ticker_match.start - 1)),
              ticker |-> ticker_match.ticker,
              trade_type |-> IF Contains(line_upper, "CALL") THEN OPTION_CALL ELSE OPTION_PUT]
        ELSE IF asset_match # ""
        THEN [found |-> TRUE, asset_name |-> Strip(asset_match),
              ticker |-> IF ticker_match.start > 0 THEN ticker_match.ticker ELSE None,
              trade_type |-> STOCK]
        ELSE [found |-> FALSE]

\* re.search(r'<word>\s+\$([0-9,]+)', s).group(1), "" when none
SearchWordDollar(s, word) ==
    LET ps == {p \in 1..Len(s) :
                 Sub(s, p, p + Len(word) - 1) = word
                 /\ MatchDollar(s, MatchWs1(s, p + Len(word))) > 0}
    IN  IF ps = {} THEN ""
        ELSE LET d == MatchWs1(s, Min(ps) + Len(word))
             IN  Sub(s, d + 1, MatchDollar(s, d) - 1)

\* \s+to\s+\$[0-9,]+ at position q: the position of the $ or 0
MatchTo(s, q) ==
    LET t == MatchWs1(s, q)
        d == IF t > 0 /\ Sub(s, t, t + 1) = "to" THEN MatchWs1(s, t + 2) ELSE 0
    IN  IF MatchDollar(s, d) > 0 THEN d ELSE 0

extract_amount_range(line) ==
    LET ps == {p \in 1..Len(line) : MatchDollar(line, p) > 0}
        \* \$([0-9,]+)-?\$?([0-9,]+)?
        p1 == Min(ps)
        e1 == MatchDollar(line, p1)
        a1 == IF Ch(line, e1) = "-" THEN e1 + 1 ELSE e1
        a2 == IF Ch(line, a1) = "$" THEN a1 + 1 ELSE a1
        e2 == SkipSet(line, a2, NumSet)
        over_match == SearchWordDollar(line, "Over")
        under_match == SearchWordDollar(line, "Under")
        ts == {p \in ps : MatchTo(line, MatchDollar(line, p)) > 0}
    IN  IF ps # {}
        THEN (IF e2 > a2
              THEN "$" \o Sub(line, p1 + 1, e1 - 1) \o "-$" \o Sub(line, a2, e2 - 1)
              ELSE "$" \o Sub(line, p1 + 1, e1 - 1))
        ELSE IF over_match # "" THEN "Over $" \o over_match
        ELSE IF under_match # "" THEN "Under $" \o under_match
        ELSE IF ts # {}
        THEN LET t == Min(ts)
                 d == MatchTo(line, MatchDollar(line, t))
             IN  "$" \o Sub(line, t + 1, MatchDollar(line, t) - 1) \o "-$"
                 \o Sub(line, d + 1, MatchDollar(line, d) - 1)
        ELSE "Unknown"

\* re.search(r'\b(\d{1,2}/\d{1,2}/\d{4})\b', s).group(1), "" when none
SearchDate(s) ==
    LET ps == {p \in 1..Len(s) :
                 Boundary(s, p) /\ MatchDate(s, p) > 0 /\ Boundary(s, MatchDate(s, p))}
    IN  IF ps = {} THEN "" ELSE Sub(s, Min(ps), MatchDate(s, Min(ps)) - 1)

\* variant with a seeded fault: the current line has no precedence over the window
extract_transaction_date_window_only(line, all_lines, line_index) ==
    LET near == {k \in Greatest(0, line_index - 2)..(Least(Len(all_lines), line_index + 3) - 1) :
                   SearchDate(LineAt(all_lines, k)) # ""}
    IN  IF near # {} THEN SearchDate(LineAt(all_lines, Min(near)))
        ELSE "Unknown"

extract_transaction_date(line, all_lines, line_index) ==
    LET near == {k \in Greatest(0, line_index - 2)..(Least(Len(all_lines), line_index + 3) - 1) :
                   SearchDate(LineAt(all_lines, k)) # ""}
    IN  IF SearchDate(line) # "" THEN SearchDate(line)
        ELSE IF near # {} THEN SearchDate(LineAt(all_lines, Min(near)))
        ELSE "Unknown"

extract_filing_date(all_lines) ==
    LET hits == {k \in 0..(Least(10, Len(all_lines)) - 1) :
                   ContainsAny(Upper(LineAt(all_lines, k)),
                               {"FILING DATE", "DATE FILED", "REPORT DATE"})
                   /\ SearchDate(LineAt(all_lines, k)) # ""}
    IN  IF hits = {} THEN "Unknown" ELSE SearchDate(LineAt(all_lines, Min(hits)))

\* variant with a seeded fault: the final validation of asset_name is dropped
parse_trade_line_body_unvalidated(line, all_lines, line_index) ==
    Bind(parse_ptr_trade_line(line, all_lines, line_index), LAMBDA ptr_trade :
    Bind(extract_action(line), LAMBDA action :
    Bind(extract_asset_and_type(line), LAMBDA trade_info :
        IF ptr_trade # NoTrade THEN ptr_trade
        ELSE IF action = None THEN NoTrade
        ELSE IF ~trade_info.found THEN NoTrade
        ELSE [asset_name |-> trade_info.asset_name, ticker |-> trade_info.ticker,
              trade_type |-> trade_info.trade_type, action |-> action,
              amount_range |-> extract_amount_range(line),
              transaction_date |-> extract_transaction_date(line, all_lines, line_index),
              filing_date |-> extract_filing_date(all_lines),
              raw_line |-> Strip(line)])))

\* the body of the try block of _parse_trade_line
parse_trade_line_body(line, all_lines, line_index) ==
    Bind(parse_ptr_trade_line(line, all_lines, line_index), LAMBDA ptr_trade :
    Bind(extract_action(line), LAMBDA action :
    Bind(extract_asset_and_type(line), LAMBDA trade_info :
        IF ptr_trade # NoTrade THEN ptr_trade
        ELSE IF action = None THEN NoTrade
        ELSE IF ~trade_info.found THEN NoTrade
        ELSE IF trade_info.asset_name # "" /\ Len(trade_info.asset_name) > 2
        THEN [asset_name |-> trade_info.asset_name, ticker |-> trade_info.ticker,
              trade_type |-> trade_info.trade_type, action |-> action,
              amount_range |-> extract_amount_range(line),
              transaction_date |-> extract_transaction_date(line, all_lines, line_index),
              filing_date |-> extract_filing_date(all_lines),
              raw_line |-> Strip(line)]
        ELSE NoTrade)))

\* variant with a seeded fault: the lookahead line is read before the try block and without the
\* bounds guard, so that IndexError leaves the function
parse_trade_line_hoisted(line, all_lines, line_index) ==
    IF ~InRange(all_lines, line_index + 1) THEN Raised
    ELSE TryExcept(parse_trade_line_body(line, all_lines, line_index))

parse_trade_line(line, all_lines, line_index) ==
    TryExcept(parse_trade_line_body(line, all_lines, line_index))

(***************************************************************************)
(* Documents: the line sequences the parser is run on                      *)
(***************************************************************************)
\* the CALL line is put at offsets 1..MaxCallOffset after the trade line
MaxCallOffset == 6
\* the D: line is put at offsets 2..MaxDOffset after the trade line
MaxDOffset == 10
\* a description block has up to MaxBlock lines after its D: line
MaxBlock == 2
\* _parse_text_for_trades is called up to MaxParses times in a run
MaxParses == 3

Date1 == "02/01/2024"
Date2 == "02/03/2024"
Lo == "$1,001"
Hi == "$15,000"

AssetNames == {"AMAZON.COM INC", "ACME CORP", "WIDGET CO", "GOVERNMENT MONEY FUND"}
Tickers == {"AMZN", "WDG"}
ActionCodes == {"P", "S"}
\* the amount as written on the trade line: a complete range, a dangling
\* dash, a single value, a spaced complete range
Amounts == {Lo \o "-" \o Hi, Lo \o " -", Lo, Lo \o " - " \o Hi}
PartialMarkers == {"", " (partial)"}

\* <AssetName> (<TICKER>) <P|S> <date1> <date2> <amount>
FullLine(asset, ticker, code, amount) ==
    asset \o " (" \o ticker \o ") " \o code \o " " \o Date1 \o " " \o Date2 \o " " \o amount

\* SP <AssetName> <P|S> [(partial)] <date1> <date2> <amount>
LeadLine(asset, code, marker, amount) ==
    "SP " \o asset \o " " \o code \o marker \o " " \o Date1 \o " " \o Date2 \o " " \o amount

FullLines == {FullLine(a, t, c, m) : a \in AssetNames, t \in Tickers, c \in ActionCodes,
                                     m \in Amounts}
LeadLines == {LeadLine(a, c, k, m) : a \in AssetNames, c \in ActionCodes,
                                     k \in PartialMarkers, m \in Amounts}

\* prose rows, headers and footers
KeywordLines == {
    "PURCHASE OF ACME INC SHARES $1,001-$15,000",
    "Sale of ab (X) call shares",
    "(X) put shares sale",
    "Disposed 5 shares of AB on 1/2/2024",
    "acquired stock",
    "TOTAL SALE OF ACME INC",
    "Asset purchase of ACME CORP",
    "TOTAL SALE INC (AMZN) S 02/01/2024 02/03/2024 $1,001",
    "SP ASSET SALE CO S 02/01/2024 02/03/2024 $1,001 -",
    "Transaction Date Notification Date Amount"}

\* what may follow a trade line
NextLines == {"(WDG) $15,000", "[OT] $50,000", "[OT]", "(WDG)"}

CoreDocs ==
    LET ts == FullLines \cup LeadLines \cup KeywordLines
    IN  {<<t>> : t \in ts} \cup {<<t, n>> : t \in ts, n \in NextLines}
        \cup {<<"Filing Date: 01/15/2024", "", t>> : t \in KeywordLines}

\* one trade line of each structural shape, for the context documents
ContextTrades == {FullLine("WIDGET CO", "WDG", "P", Lo),
                  LeadLine("WIDGET CO", "P", "", Lo \o " -")}
Filler == "F S: New"
OptionMarks == {"", " CALL", " call", " PUT", " Option"}

\* a trade line, its next line, fillers, and mark appended to the line at
\* offset k
CallDoc(t, n, k, mark) ==
    [j \in 1..(MaxCallOffset + 1) |->
        (IF j = 1 THEN t ELSE IF j = 2 THEN n ELSE Filler) \o (IF j = k + 1 THEN mark ELSE "")]

CallDocs == {CallDoc(t, n, k, mark) : t \in ContextTrades, n \in {"(WDG) $15,000", "[OT]"},
                                      k \in 1..MaxCallOffset, mark \in OptionMarks}

BlockLines == <<" strike 100 ", "D: expires~ 1/17/2025", "exp~iration", "last">>
Terminators == {<<>>, <<"SP NEXT CO P">>, <<"L: Speaker">>, <<"  L: indented", "after">>}

\* an option trade, fillers up to the D: line at offset d, m more lines of the
\* block, and what ends it
BlockDoc(t, pre, d, m, term) ==
    <<t, "(WDG) [OP] $15,000 CALL">> \o [j \in 1..(d - 2) |-> pre]
    \o <<"D: Purchased 50 call options">> \o SubSeq(BlockLines, 1, m) \o term

BlockDocs == {BlockDoc(t, Filler, d, m, term) : t \in ContextTrades, d \in 2..MaxDOffset,
                                                m \in 0..MaxBlock, term \in Terminators}
             \cup {BlockDoc(t, "SP OTHER CO S", 3, 1, <<>>) : t \in ContextTrades}
             \cup {<<t, "(WDG) [OP] $15,000 CALL", Filler, Filler>> : t \in ContextTrades}

\* one document with a trade line for each of the four extraction paths
MixedDocs == {<<FullLine("AMAZON.COM INC", "AMZN", "S", Lo),
                LeadLine("WIDGET CO", "P", " (partial)", Lo \o " -"), "(WDG) $15,000",
                LeadLine("GOVERNMENT MONEY FUND", "P", "", Lo \o " -"), "[OT] $50,000",
                "PURCHASE OF ACME INC SHARES $1,001-$15,000">>}

\* a candidate line that gives no record between two trade lines
GapDocs == {<<FullLine("AMAZON.COM INC", "AMZN", "S", Lo), "(X) put shares sale",
              "Transaction Date Notification Date Amount",
              FullLine("WIDGET CO", "WDG", "P", Lo)>>}

\* trade lines whose asset name has one or two characters
ShortNames == {"A", "AB"}
ShortDocs == {<<FullLine(a, "AMZN", "S", Lo)>> : a \in ShortNames}
             \cup {<<LeadLine(a, "S", "", Lo \o " -"), n>> :
                      a \in ShortNames, n \in {"(WDG) $15,000", "[OT] $50,000"}}
             \cup {<<"Sale of ab (X) call shares">>, <<"SALE OF (X) CALL SHARES">>}

\* prose rows with each form of amount of the heuristic cascade
Prose == "PURCHASE OF ACME INC SHARES"
ProseAmounts == {"", " $1,001-$15,000", " $1,001-15,000", " $1,001", " Over $1,000,000",
                 " Under $1,000", " $1,001 to $15,000", " Over 1,000", " to $15,000"}
AmountDocs == {<<Prose \o m>> : m \in ProseAmounts}

\* a single-line trade followed by a line with several, one or no $ token
TokenLines == {"F $15,000 $9", "$15,000", "F S: New", "(WDG) $15,000 ($9)"}
TokenDocs == {<<FullLine("WIDGET CO", "WDG", c, m), n>> :
                 c \in ActionCodes, m \in Amounts, n \in TokenLines}

\* partial sales of a fund whose name holds an action keyword
PartialDocs == {<<LeadLine("SALE INC", c, " (partial)", m), n>> : c \in ActionCodes, m \in {Lo \o " -", Lo}, n \in {"[OT] $50,000", "[OT]"}}

\* a trade line, its next line and fillers, with mark m1 on the line at offset
\* k1 and mark m2 on the line at offset k2
TwoMarkDoc(t, k1, m1, k2, m2) ==
    [j \in 1..(MaxCallOffset + 1) |->
        (IF j = 1 THEN t ELSE IF j = 2 THEN "(WDG) $15,000" ELSE Filler)
        \o (IF j = k1 + 1 THEN m1 ELSE "") \o (IF j = k2 + 1 THEN m2 ELSE "")]

\* option keywords before the trade line, inside its window and beyond it, and
\* a window that runs over the trade line of the next record
ContextDocs ==
    {TwoMarkDoc(t, k1, m1, k2, m2) : t \in ContextTrades, k1 \in {0, 2, 4},
                                     m1 \in {" PUT", " strike", " Expiration date"},
                                     k2 \in {4, 5}, m2 \in {" CALL", " put"}}
    \cup {<<Filler \o m, t, "(WDG) $15,000", Filler>> :
             m \in {" CALL", " put", " option"}, t \in ContextTrades}
    \cup {<<t, "(WDG) $15,000", LeadLine("GOVERNMENT MONEY FUND", "P", "", Lo \o " -"),
            "[OT] $50,000" \o m, Filler, Filler \o " CALL">> :
             t \in ContextTrades, m \in {"", " PUT"}}

\* prose rows with each action keyword and each asset indicator, rows with a
\* header or footer keyword, and rows that lack one of the two kinds
ClassifierLines ==
    {a \o " of Acme " \o t : a \in {"buy", "Sell", "purchase", "SALE", "Acquired", "disposed"},
                            t \in {"Inc", "corp", "LLC", "etf", "Stock", "shares"}}
    \cup {"Sale of Acme Inc " \o k : k \in {"date", "Asset", "action", "Amount", "---",
                                           "Total", "summary", "transaction", "--"}}
    \cup {"sale", "Acme Inc", "widget shares", "sold Acme Inc", "Purchase of bonds"}
ClassifierDocs == {<<l>> : l \in ClassifierLines}

\* the dates written on the lines at offsets -3, -2, -1, 1, 2, 3 of a prose row
OffsetDates == <<"01/01/2021", "02/02/2022", "3/3/2023", "04/04/2024", "5/05/2025", "06/06/2026">>
\* what follows the prose row on its own line: nothing, a date, a date-like
\* text that is no date token
OwnDates == {"", " 9/9/2029", " 12/31/20245"}

\* a prose row as fourth line, with dates on the lines whose position is in dset
DateDoc(own, dset) ==
    [q \in 1..7 |-> IF q = 4 THEN Prose \o own
                    ELSE IF q \in dset THEN "on " \o OffsetDates[IF q < 4 THEN q ELSE q - 1]
                    ELSE "none"]

\* the window of the prose row whole, and clipped at either end of the document
DateDocs ==
    {DateDoc(own, dset) : own \in OwnDates, dset \in SUBSET {1, 2, 3, 5, 6, 7}}
    \cup {<<"on 01/01/2021", Prose>>, <<Prose, "on 04/04/2024">>,
          <<"x1/2/2024", Prose, "none", "none", "on 06/06/2026">>}

\* prose rows with several separate runs of uppercase words
RunLines == {"BUY 100 ACME INC SHARES", "BUY 100 ACME INC SHARES (WDG)",
             "ACME INC SHARES in a SALE", "Purchase: AB, then WIDGET CORP (WDG)"}
RunDocs == {<<l>> : l \in RunLines}

\* a lead-token line as the last line of a document of two lines
LastLineDocs ==
    {<<FullLine("WIDGET CO", "WDG", "P", Lo), LeadLine(a, c, k, Lo \o " -")>> :
        a \in {"WIDGET CO", "SALE INC", "ACME CORP"}, c \in ActionCodes, k \in PartialMarkers}

Docs == {<<>>} \cup CoreDocs \cup CallDocs \cup BlockDocs \cup MixedDocs \cup GapDocs
        \cup ShortDocs \cup AmountDocs \cup TokenDocs
        \cup PartialDocs \cup ContextDocs \cup ClassifierDocs
        \cup DateDocs \cup RunDocs \cup LastLineDocs

\* the documents parsed repeatedly and interleaved
IdemDocs == {<<FullLine("WIDGET CO", "WDG", "P", Lo \o " -"), "(WDG) $15,000">>,
             <<LeadLine("WIDGET CO", "S", "", Lo \o " -"), "[OT] $50,000",
               "PURCHASE OF ACME INC SHARES $1,001-$15,000">>,
             <<"Transaction Date Notification Date Amount">>}

(***************************************************************************)
(* The parser as a state machine: _parse_text_for_trades, one loop         *)
(* iteration per step, on each parser instance                             *)
(***************************************************************************)
Parsers == {"p1", "p2"}

\* the state after construction, before any document is parsed
InitParsers ==
    /\ pc = [p \in Parsers |-> "idle"]
    /\ lines = [p \in Parsers |-> <<>>]
    /\ i = [p \in Parsers |-> 0]
    /\ trades = [p \in Parsers |-> <<>>]
    /\ candidates = [p \in Parsers |-> {}]
    /\ origins = [p \in Parsers |-> <<>>]
    /\ log = <<>>

\* a fresh politician_trades.db and no run of the multi-politician tracker
InitMultiIdle ==
    /\ mfilings = {}
    /\ mtradeRows = <<>>
    /\ mnotified = <<>>
    /\ mhandled = <<>>
    /\ mrunsLeft = 0
    /\ mpc = "idle"
    /\ mdry_run = FALSE
    /\ mwebhook = FALSE
    /\ mqueue = <<>>

\* no message is being sent
InitNotifierIdle ==
    /\ max_retries = 0
    /\ attempt = 0
    /\ responses = <<>>
    /\ returned = "nothing"
    /\ npc = "idle"

\* nothing has been scraped
NoScrape == [raised |-> FALSE, all_filings |-> <<>>]

\* a fresh database and no tracker run under way
InitStore ==
    /\ filings = {}
    /\ tradeRows = <<>>
    /\ downloads = {}
    /\ notified = <<>>
    /\ runsLeft = 0
    /\ tpc = "idle"
    /\ dry_run = FALSE
    /\ test_mode = FALSE
    /\ discord = FALSE
    /\ queue = <<>>
    /\ scraped = NoScrape

\* one parser, one document, parsed once
Init ==
    /\ corpus \in {{d} : d \in Docs}
    /\ instances = {"p1"}
    /\ parsesLeft = 1
    /\ InitParsers
    /\ InitStore
    /\ InitNotifierIdle
    /\ InitMultiIdle

\* two parsers, a few documents, parsed repeatedly in any interleaving
InitIdem ==
    /\ corpus = IdemDocs
    /\ instances = Parsers
    /\ parsesLeft = MaxParses
    /\ InitParsers
    /\ InitStore
    /\ InitNotifierIdle
    /\ InitMultiIdle

\* variant with a seeded fault: the trade list is kept on the instance and not emptied
StartParse_stale(p) ==
    /\ p \in instances
    /\ pc[p] = "idle"
    /\ parsesLeft > 0
    /\ \E d \in corpus : lines' = [lines EXCEPT ![p] = d]
    /\ parsesLeft' = parsesLeft - 1
    /\ pc' = [pc EXCEPT ![p] = "loop"]
    /\ i' = [i EXCEPT ![p] = 0]
    /\ candidates' = [candidates EXCEPT ![p] = {}]
    /\ UNCHANGED <<corpus, instances, log, trades, origins>>
    /\ UNCHANGED trackerVars
    /\ UNCHANGED notifierVars
    /\ UNCHANGED multiVars

\* trades = []; lines = text.split('\n')
StartParse(p) ==
    /\ p \in instances
    /\ pc[p] = "idle"
    /\ parsesLeft > 0
    /\ \E d \in corpus : lines' = [lines EXCEPT ![p] = d]
    /\ parsesLeft' = parsesLeft - 1
    /\ pc' = [pc EXCEPT ![p] = "loop"]
    /\ i' = [i EXCEPT ![p] = 0]
    /\ trades' = [trades EXCEPT ![p] = <<>>]
    /\ candidates' = [candidates EXCEPT ![p] = {}]
    /\ origins' = [origins EXCEPT ![p] = <<>>]
    /\ UNCHANGED <<corpus, instances, log>>
    /\ UNCHANGED trackerVars
    /\ UNCHANGED notifierVars
    /\ UNCHANGED multiVars

\* variant with a seeded fault: a candidate line without a record empties the list
Collect_abort(p, trade) ==
    IF trade = Raised
    THEN /\ pc' = [pc EXCEPT ![p] = "raised"]
         /\ UNCHANGED <<i, trades, origins>>
    ELSE /\ trades' = [trades EXCEPT ![p] = IF trade # NoTrade THEN Append(@, trade) ELSE <<>>]
         /\ origins' = [origins EXCEPT ![p] = IF trade # NoTrade THEN Append(@, i[p]) ELSE <<>>]
         /\ i' = [i EXCEPT ![p] = i[p] + 1]
         /\ UNCHANGED pc

\* trade = self._parse_trade_line(line, lines, i); if trade: trades.append(trade)
Collect(p, trade) ==
    IF trade = Raised
    THEN /\ pc' = [pc EXCEPT ![p] = "raised"]
         /\ UNCHANGED <<i, trades, origins>>
    ELSE /\ trades' = [trades EXCEPT ![p] = IF trade # NoTrade THEN Append(@, trade) ELSE @]
         /\ origins' = [origins EXCEPT ![p] = IF trade # NoTrade THEN Append(@, i[p]) ELSE @]
         /\ i' = [i EXCEPT ![p] = i[p] + 1]
         /\ UNCHANGED pc

\* one iteration of: for i, line in enumerate(lines)
ProcessLine(p) ==
    /\ pc[p] = "loop"
    /\ i[p] < Len(lines[p])
    /\ IF ~is_trade_line(LineAt(lines[p], i[p]))
       THEN /\ i' = [i EXCEPT ![p] = i[p] + 1]
            /\ UNCHANGED <<pc, trades, candidates, origins>>
       ELSE /\ candidates' = [candidates EXCEPT ![p] = candidates[p] \cup {i[p]}]
            /\ Collect(p, parse_trade_line(LineAt(lines[p], i[p]), lines[p], i[p]))
    /\ UNCHANGED <<corpus, instances, parsesLeft, lines, log>>
    /\ UNCHANGED trackerVars
    /\ UNCHANGED notifierVars
    /\ UNCHANGED multiVars

\* return trades
Return(p) ==
    /\ pc[p] = "loop"
    /\ i[p] = Len(lines[p])
    /\ pc' = [pc EXCEPT ![p] = "idle"]
    /\ log' = Append(log, [lines |-> lines[p], trades |-> trades[p]])
    /\ UNCHANGED <<corpus, instances, parsesLeft, lines, i, trades, candidates, origins>>
    /\ UNCHANGED trackerVars
    /\ UNCHANGED notifierVars
    /\ UNCHANGED multiVars

Next == \E p \in Parsers : StartParse(p) \/ ProcessLine(p) \/ Return(p)

Spec == Init /\ [][Next]_vars

SpecIdem == InitIdem /\ [][Next]_vars

(***************************************************************************)
(* The tracker: PelosiTradeTracker.run over the filings store              *)
(* (src/pelosi_tracker.py, src/database.py)                                *)
(***************************************************************************)
\* the tracker is run up to MaxRuns times on the same database
MaxRuns == 2

\* the filings the House Clerk site can list (filing_id is a numeric string,
\* compared as an integer), and the text of their PDFs
FilingIds == 1..4
PdfOf(filing_id) ==
    IF filing_id = 4
    THEN <<FullLine("WIDGET CO", "WDG", "P", Lo \o " -"), "(WDG) $15,000">>
    ELSE IF filing_id = 3
    THEN <<LeadLine("WIDGET CO", "S", "", Lo \o " -"), "[OT] $50,000",
           "PURCHASE OF ACME INC SHARES $1,001-$15,000">>
    ELSE <<"Transaction Date Notification Date Amount">>

\* filings.sort(key=lambda x: int(x['filing_id']), reverse=True)
NewestFirst(l) == \A m, n \in 1..Len(l) : m < n => l[m] > l[n]

\* what scraper.search_pelosi_filings can return; [] when the scrape fails
Listings == {l \in UNION {[1..n -> FilingIds] : n \in 0..4} : NewestFirst(l)}

RECURSIVE parse_loop(_, _, _)
\* for i, line in enumerate(lines): ... trades.append(trade)
parse_loop(doc, k, acc) ==
    IF k >= Len(doc) THEN acc
    ELSE IF ~is_trade_line(LineAt(doc, k)) THEN parse_loop(doc, k + 1, acc)
    ELSE Bind(parse_trade_line(LineAt(doc, k), doc, k), LAMBDA trade :
             parse_loop(doc, k + 1, IF trade # NoTrade THEN Append(acc, trade) ELSE acc))

\* _parse_text_for_trades as a function of the lines
parse_text_for_trades(doc) == parse_loop(doc, 0, <<>>)

\* extract_trades on the downloaded PDF of each filing
extract_trades == [filing_id \in FilingIds |-> parse_text_for_trades(PdfOf(filing_id))]

\* SELECT 1 FROM filings WHERE filing_id = ?
is_filing_processed(db, filing_id) == \E f \in db : f.filing_id = filing_id

\* INSERT OR REPLACE INTO filings: one row for a filing_id
add_filing(db, filing_id, trade_count) ==
    {f \in db : f.filing_id # filing_id}
    \cup {[filing_id |-> filing_id, trade_count |-> trade_count]}

\* INSERT INTO trades, one row for a trade (the UPDATE of trade_count
\* writes the count add_filing has stored)
add_trades(rows, filing_id, found) ==
    rows \o [k \in 1..Len(found) |->
                [filing_id |-> filing_id, asset_name |-> found[k].asset_name,
                 action |-> found[k].action]]

RECURSIVE find_loop_no_break(_, _, _, _)
\* variant with a seeded fault: the loop goes on after a processed filing
find_loop_no_break(db, all_filings, k, new_filings) ==
    IF k > Len(all_filings) THEN [new_filings |-> new_filings, processed_count |-> 1]
    ELSE IF ~is_filing_processed(db, all_filings[k])
    THEN find_loop_no_break(db, all_filings, k + 1, Append(new_filings, all_filings[k]))
    ELSE find_loop_no_break(db, all_filings, k + 1, new_filings)

RECURSIVE find_loop(_, _, _, _)
\* for filing in all_filings: new ones are collected up to the first
\* processed one, where the loop breaks
find_loop(db, all_filings, k, new_filings) ==
    IF k > Len(all_filings) THEN [new_filings |-> new_filings, processed_count |-> 0]
    ELSE IF ~is_filing_processed(db, all_filings[k])
    THEN find_loop(db, all_filings, k + 1, Append(new_filings, all_filings[k]))
    ELSE [new_filings |-> new_filings, processed_count |-> 1]

\* _find_new_filings: a fresh database is limited to the 2 most recent
find_new_filings(db, all_filings) ==
    Bind(find_loop(db, all_filings, 1, <<>>), LAMBDA r :
        IF r.processed_count = 0 /\ Len(r.new_filings) > 2
        THEN SubSeq(r.new_filings, 1, 2) ELSE r.new_filings)

\* a database of earlier runs, no run under way
InitTracker ==
    /\ corpus = {}
    /\ instances = {}
    /\ parsesLeft = 0
    /\ InitParsers
    /\ filings \in {{}, {[filing_id |-> 1, trade_count |-> 0]}}
    /\ tradeRows = <<>>
    /\ downloads = {}
    /\ notified = <<>>
    /\ runsLeft = MaxRuns
    /\ tpc = "idle"
    /\ dry_run = FALSE
    /\ test_mode = FALSE
    /\ discord = FALSE
    /\ queue = <<>>
    /\ scraped = NoScrape
    /\ InitNotifierIdle
    /\ InitMultiIdle

\* main: PelosiTradeTracker(test_mode, dry_run), then run() up to the loop
\* over the new filings; when the scrape or the database raises inside
\* _find_new_filings, its except clause returns []
RunStart ==
    /\ tpc = "idle"
    /\ runsLeft > 0
    /\ runsLeft' = runsLeft - 1
    /\ dry_run' \in BOOLEAN
    /\ test_mode' \in BOOLEAN
    /\ discord' \in IF test_mode' THEN {FALSE} ELSE BOOLEAN
    /\ \E all_filings \in Listings, raised \in BOOLEAN :
          /\ raised => all_filings = <<>>
          /\ scraped' = [raised |-> raised, all_filings |-> all_filings]
          /\ queue' = IF raised THEN <<>> ELSE find_new_filings(filings, all_filings)
          /\ tpc' = IF queue' = <<>> THEN "idle" ELSE "processing"
    /\ UNCHANGED <<filings, tradeRows, downloads, notified>>
    /\ UNCHANGED parserVars
    /\ UNCHANGED notifierVars
    /\ UNCHANGED multiVars

\* _process_filing once the PDF is there (pdf_path is not None)
StoreFiling(filing_id, found) ==
    /\ filings' = add_filing(filings, filing_id, Len(found))
    /\ tradeRows' = IF found # <<>> THEN add_trades(tradeRows, filing_id, found) ELSE tradeRows
    /\ notified' = IF found # <<>> /\ ~test_mode /\ discord
                   THEN Append(notified, filing_id) ELSE notified

\* one iteration of: for filing in new_filings: self._process_filing(filing).
\* In a dry run no PDF is downloaded, the dummy path names no file and
\* extract_trades returns []; otherwise the download succeeds or fails.
ProcessFiling ==
    /\ tpc = "processing"
    /\ queue # <<>>
    /\ queue' = Tail(queue)
    /\ IF dry_run
       THEN /\ StoreFiling(Head(queue), <<>>)
            /\ UNCHANGED downloads
       ELSE /\ downloads' = downloads \cup {Head(queue)}
            /\ \E ok \in BOOLEAN :
                  IF ok THEN StoreFiling(Head(queue), extract_trades[Head(queue)])
                  ELSE UNCHANGED <<filings, tradeRows, notified>>
    /\ UNCHANGED <<runsLeft, tpc, dry_run, test_mode, discord, scraped>>
    /\ UNCHANGED parserVars
    /\ UNCHANGED notifierVars
    /\ UNCHANGED multiVars

\* the loop is over: _display_summary, run returns
RunEnd ==
    /\ tpc = "processing"
    /\ queue = <<>>
    /\ tpc' = "idle"
    /\ UNCHANGED <<filings, tradeRows, downloads, notified, runsLeft, dry_run, test_mode,
                   discord, queue, scraped>>
    /\ UNCHANGED parserVars
    /\ UNCHANGED notifierVars
    /\ UNCHANGED multiVars

NextTracker == RunStart \/ ProcessFiling \/ RunEnd

SpecTracker == InitTracker /\ [][NextTracker]_vars

(***************************************************************************)
(* The notifier: DiscordNotifier._send_discord_message                     *)
(* (src/discord_notifier.py)                                               *)
(***************************************************************************)
\* _send_discord_message is called with max_retries from 0 to MaxRetries
MaxRetries == 3

\* what the body of a 429 response can be: a JSON object with a number as
\* retry_after, a JSON object without the field (1.0 is used), a text that is
\* no JSON, and a JSON value that makes .get or time.sleep raise (no object, or
\* retry_after null, negative or no number)
Bodies429 == {"retry_after", "no_field", "not_json", "unusable"}

\* what one requests.post can give: a response, or an exception
Outcomes ==
    {[raised |-> "nothing", status_code |-> c, body |-> "other"] : c \in {200, 204, 400, 500}}
    \cup {[raised |-> "nothing", status_code |-> 429, body |-> b] : b \in Bodies429}
    \cup {[raised |-> e, status_code |-> 0, body |-> "other"] :
             e \in {"RequestException", "Exception"}}

\* how one pass through the body of the for loop ends for outcome r of the
\* POST: "True" and "False" are returned, "continue" goes to the next attempt
loop_body(r, this_attempt, retries) ==
    IF r.raised = "RequestException"
    THEN (IF this_attempt < retries - 1 THEN "continue" ELSE "False")
    ELSE IF r.raised = "Exception" THEN "False"
    ELSE IF r.status_code \in {200, 204} THEN "True"
    ELSE IF r.status_code = 429
    THEN (IF r.body = "unusable" THEN "False" ELSE "continue")
    ELSE "False"

\* no message sent yet
InitNotifier ==
    /\ corpus = {}
    /\ instances = {}
    /\ parsesLeft = 0
    /\ InitParsers
    /\ InitStore
    /\ InitNotifierIdle
    /\ InitMultiIdle

\* _send_discord_message(message, max_retries) is called
SendStart ==
    /\ npc = "idle"
    /\ returned = "nothing"
    /\ max_retries' \in 0..MaxRetries
    /\ attempt' = 0
    /\ responses' = <<>>
    /\ npc' = "loop"
    /\ UNCHANGED returned
    /\ UNCHANGED <<parserVars, trackerVars, multiVars>>

\* one attempt of: for attempt in range(max_retries)
Post ==
    /\ npc = "loop"
    /\ attempt < max_retries
    /\ \E r \in Outcomes :
          /\ responses' = Append(responses, r)
          /\ IF loop_body(r, attempt, max_retries) = "continue"
             THEN /\ attempt' = attempt + 1
                  /\ UNCHANGED <<returned, npc>>
             ELSE /\ returned' = loop_body(r, attempt, max_retries)
                  /\ npc' = "idle"
                  /\ UNCHANGED attempt
    /\ UNCHANGED max_retries
    /\ UNCHANGED <<parserVars, trackerVars, multiVars>>

\* the loop has run out: return False
Exhausted ==
    /\ npc = "loop"
    /\ attempt >= max_retries
    /\ returned' = "False"
    /\ npc' = "idle"
    /\ UNCHANGED <<max_retries, attempt, responses>>
    /\ UNCHANGED <<parserVars, trackerVars, multiVars>>

NextNotifier == SendStart \/ Post \/ Exhausted

SpecNotifier == InitNotifier /\ [][NextNotifier]_vars

(***************************************************************************)
(* The multi-politician tracker: MultiPoliticianTracker.run over            *)
(* politician_trades.db (src/multi_politician_tracker.py,                  *)
(* src/multi_politician_database.py, src/multi_politician_scraper.py)      *)
(***************************************************************************)
\* the active politicians, in the order of the configuration
Politicians == <<"pelosi", "other">>

\* the filings of each politician on the House Clerk site
FilingsOf(politician) == IF politician = "pelosi" THEN {2, 3, 4} ELSE {1}

\* is_ptr = 'PTR' in filing_type.upper(): filing 4 is an annual report
PtrIds == {1, 2, 3}

\* what search_politician_filings can return for a politician: filings
\* sorted newest first, each with its is_ptr flag; [] when the search fails
ListingsOf(politician) ==
    {[k \in 1..Len(l) |-> [filing_id |-> l[k], is_ptr |-> l[k] \in PtrIds]] :
        l \in {x \in Listings : \A k \in 1..Len(x) : x[k] \in FilingsOf(politician)}}

\* MultiPoliticianTradesDB.is_filing_processed: the SELECT, and False when
\* sqlite3 raises
multi_is_filing_processed(db, filing_id, sqlite_error) ==
    IF sqlite_error THEN FALSE ELSE \E f \in db : f.filing_id = filing_id

\* MultiPoliticianTradesDB.add_filing: INSERT OR REPLACE, one row for a filing_id
multi_add_filing(db, filing_id, politician_name) ==
    {f \in db : f.filing_id # filing_id}
    \cup {[filing_id |-> filing_id, politician_name |-> politician_name]}

\* MultiPoliticianTradesDB.add_trades: one row for a trade
multi_add_trades(rows, filing_id, politician_name, found) ==
    rows \o [k \in 1..Len(found) |->
                [filing_id |-> filing_id, politician_name |-> politician_name,
                 asset_name |-> found[k].asset_name, action |-> found[k].action]]

\* filings = filings[:1]
first_one(filing_list) == IF Len(filing_list) > 1 THEN SubSeq(filing_list, 1, 1) ELSE filing_list

\* a database of earlier runs
InitMulti ==
    /\ corpus = {}
    /\ instances = {}
    /\ parsesLeft = 0
    /\ InitParsers
    /\ InitStore
    /\ InitNotifierIdle
    /\ mfilings \in {{}, {[filing_id |-> 2, politician_name |-> "pelosi"]}}
    /\ mtradeRows = <<>>
    /\ mnotified = <<>>
    /\ mhandled = <<>>
    /\ mrunsLeft = MaxRuns
    /\ mpc = "idle"
    /\ mdry_run = FALSE
    /\ mwebhook = FALSE
    /\ mqueue = <<>>

\* main: MultiPoliticianTracker(dry_run), then run() up to the loop over
\* all_filings.items()
MultiRunStart ==
    /\ mpc = "idle"
    /\ mrunsLeft > 0
    /\ mrunsLeft' = mrunsLeft - 1
    /\ mdry_run' \in BOOLEAN
    /\ mwebhook' \in BOOLEAN
    /\ \E l1 \in ListingsOf(Politicians[1]), l2 \in ListingsOf(Politicians[2]) :
          mqueue' = <<[politician |-> Politicians[1], filings |-> l1],
                      [politician |-> Politicians[2], filings |-> l2]>>
    /\ mpc' = "processing"
    /\ UNCHANGED <<mfilings, mtradeRows, mnotified, mhandled>>
    /\ UNCHANGED <<parserVars, trackerVars, notifierVars>>

\* the body of the try block for a new PTR filing: _process_filing_pdf, then
\* outside a dry run add_filing, add_trades and the notifications; found is
\* [] in a dry run and when the download fails, and a failed write of
\* sqlite3 leaves the tables as they are
HandleFiling(politician, filing_id, found, write_error) ==
    /\ mhandled' = Append(mhandled, filing_id)
    /\ IF mdry_run
       THEN UNCHANGED <<mfilings, mtradeRows, mnotified>>
       ELSE /\ mfilings' = IF write_error THEN mfilings
                           ELSE multi_add_filing(mfilings, filing_id, politician)
            /\ mtradeRows' = IF write_error \/ found = <<>> THEN mtradeRows
                             ELSE multi_add_trades(mtradeRows, filing_id, politician, found)
            /\ mnotified' = IF found # <<>> /\ mwebhook
                            THEN Append(mnotified, filing_id) ELSE mnotified

\* one iteration of the loop of run: _process_politician_filings(politician,
\* filings), which cuts the list to its first filing before it looks at
\* is_ptr and at the database
ProcessPolitician ==
    /\ mpc = "processing"
    /\ mqueue # <<>>
    /\ mqueue' = Tail(mqueue)
    /\ \E sqlite_error, ok, write_error \in BOOLEAN :
          Bind(first_one(Head(mqueue).filings), LAMBDA filing_list :
              IF filing_list = <<>> \/ ~filing_list[1].is_ptr
                 \/ multi_is_filing_processed(mfilings, filing_list[1].filing_id, sqlite_error)
              THEN UNCHANGED <<mfilings, mtradeRows, mnotified, mhandled>>
              ELSE HandleFiling(Head(mqueue).politician, filing_list[1].filing_id,
                                IF mdry_run \/ ~ok THEN <<>>
                                ELSE extract_trades[filing_list[1].filing_id],
                                write_error))
    /\ UNCHANGED <<mrunsLeft, mpc, mdry_run, mwebhook>>
    /\ UNCHANGED <<parserVars, trackerVars, notifierVars>>

\* the loop is over: run returns
MultiRunEnd ==
    /\ mpc = "processing"
    /\ mqueue = <<>>
    /\ mpc' = "idle"
    /\ UNCHANGED <<mfilings, mtradeRows, mnotified, mhandled, mrunsLeft, mdry_run, mwebhook,
                   mqueue>>
    /\ UNCHANGED <<parserVars, trackerVars, notifierVars>>

NextMulti == MultiRunStart \/ ProcessPolitician \/ MultiRunEnd

SpecMulti == InitMulti /\ [][NextMulti]_vars

(***************************************************************************)
(* Properties                                                              *)
(***************************************************************************)
\* the line indices the loop of parser p has gone through
Processed(p) == 0..(i[p] - 1)

\* the record parser p emitted for line j of its document, NoTrade when none
EmittedFor(p, j) ==
    IF \E k \in 1..Len(origins[p]) : origins[p][k] = j
    THEN trades[p][CHOOSE k \in 1..Len(origins[p]) : origins[p][k] = j]
    ELSE NoTrade

\* a record made by one of the three structural shapes
Structural(r) == r # NoTrade /\ "notification_date" \in DOMAIN r

\* Buy for P, Sell for S
ActionOfCode(c) == IF c = "P" THEN "BUY" ELSE "SELL"

\* C1: every line <AssetName> (<TICKER>) <P|S> <date1> <date2> $<lo>-$<hi>,
\* whatever the next line is, yields a record with the trimmed asset name, the
\* ticker, Sell for S and Buy for P, and the whole range text as amount_range.
C1_SingleLineFullForm ==
    \A p \in Parsers : \A j \in Processed(p) :
        \A a \in AssetNames, t \in Tickers, c \in ActionCodes :
            LineAt(lines[p], j) = FullLine(a, t, c, Lo \o "-" \o Hi)
            => LET r == EmittedFor(p, j)
               IN  /\ r # NoTrade
                   /\ r.asset_name = a
                   /\ r.ticker = t
                   /\ r.action = ActionOfCode(c)
                   /\ r.amount_range = Lo \o "-" \o Hi

\* C2: every line SP <AssetName> <P|S> <date1> <date2> $<lo> - whose asset
\* name is any run of uppercase words, followed by a line without a
\* parenthesized ticker that holds $<hi>, yields a record whose amount_range is
\* "$<lo> - $<hi>".
C2_AmountCompletion ==
    \A p \in Parsers : \A j \in Processed(p) :
        \A a \in AssetNames, c \in ActionCodes :
            (/\ LineAt(lines[p], j) = LeadLine(a, c, "", Lo \o " -")
             /\ j + 1 < Len(lines[p])
             /\ LineAt(lines[p], j + 1) = "[OT] $50,000")
            => LET r == EmittedFor(p, j)
               IN  r # NoTrade /\ r.amount_range = Lo \o " - " \o "$50,000"

\* C3: every line SP <AssetName> <P|S> <date1> <date2> $<lo> - followed by a
\* line (<TICKER>) $<hi> yields a record with that ticker and the amount_range
\* "$<lo> - $<hi>".
C3_TickerOnNextLine ==
    \A p \in Parsers : \A j \in Processed(p) :
        \A a \in AssetNames, c \in ActionCodes :
            (/\ LineAt(lines[p], j) = LeadLine(a, c, "", Lo \o " -")
             /\ j + 1 < Len(lines[p])
             /\ LineAt(lines[p], j + 1) = "(WDG) " \o Hi)
            => LET r == EmittedFor(p, j)
               IN  /\ r # NoTrade
                   /\ r.ticker = "WDG"
                   /\ r.amount_range = Lo \o " - " \o Hi

\* C4: a lead-token line whose next line has no parenthesized 1-5 letter
\* ticker yields a record, and the ticker of that record is 'N/A'.
C4_NoTickerInstrument ==
    \A p \in Parsers : \A j \in Processed(p) :
        \A a \in AssetNames, c \in ActionCodes :
            (/\ LineAt(lines[p], j) = LeadLine(a, c, "", Lo \o " -")
             /\ j + 1 < Len(lines[p])
             /\ SearchTicker(LineAt(lines[p], j + 1)).start = 0)
            => LET r == EmittedFor(p, j)
               IN  r # NoTrade /\ r.ticker = "N/A"

\* a line holding TOTAL or ASSET, in any letter case, and an action keyword
HeaderWithAction(line) ==
    /\ ContainsAny(Upper(line), {"TOTAL", "ASSET"})
    /\ ContainsAny(Upper(line), action_keywords)

\* a line matched by one of the three structural shape patterns
MatchesShape(line) ==
    SearchSingleLine(line).matched \/ SearchLead(line, TRUE).matched
    \/ SearchLead(line, FALSE).matched

\* C5: a line holding TOTAL or ASSET together with an action keyword is never
\* classified as a candidate trade line, whatever else it holds.
C5_HeaderNeverCandidate ==
    \A p \in Parsers : \A j \in Processed(p) :
        HeaderWithAction(LineAt(lines[p], j)) => j \notin candidates[p]

\* C5, as amended: a line that matches none of the three structural shape
\* patterns and holds TOTAL or ASSET together with an action keyword is never
\* classified as a candidate trade line.
C5_HeaderNeverCandidateUnlessShape ==
    \A p \in Parsers : \A j \in Processed(p) :
        (HeaderWithAction(LineAt(lines[p], j)) /\ ~MatchesShape(LineAt(lines[p], j)))
        => j \notin candidates[p]

\* C5: a header line with an action and an asset keyword has been rejected
C5_Witness ==
    \E p \in Parsers : \E j \in Processed(p) :
        /\ HeaderWithAction(LineAt(lines[p], j))
        /\ ContainsAny(Upper(LineAt(lines[p], j)), asset_indicators)
        /\ ~MatchesShape(LineAt(lines[p], j))
        /\ j \notin candidates[p]

\* some line at offsets 1..n after line j holds CALL
CallWithin(p, j, n) ==
    \E k \in 1..n : j + k < Len(lines[p]) /\ Contains(LineAt(lines[p], j + k), "CALL")

\* C6: a record of a structural shape for a line followed within 5 lines by a
\* line holding CALL has kind option_call.
C6_CallWithinFive ==
    \A p \in Parsers : \A j \in Processed(p) :
        (Structural(EmittedFor(p, j)) /\ CallWithin(p, j, 5))
        => EmittedFor(p, j).trade_type = OPTION_CALL

\* C6, as amended: a record of a structural shape for a line followed within 4
\* lines by a line holding CALL has kind option_call.
C6_CallWithinFour ==
    \A p \in Parsers : \A j \in Processed(p) :
        (Structural(EmittedFor(p, j)) /\ CallWithin(p, j, 4))
        => EmittedFor(p, j).trade_type = OPTION_CALL

\* C6: an option call whose only CALL line is the fourth line after it
C6_Witness ==
    \E p \in Parsers : \E j \in Processed(p) :
        /\ Structural(EmittedFor(p, j))
        /\ EmittedFor(p, j).trade_type = OPTION_CALL
        /\ CallWithin(p, j, 4)
        /\ ~CallWithin(p, j, 3)
        /\ ~Contains(Upper(LineAt(lines[p], j)), "CALL")

\* an emitted record of a structural shape whose kind is an option
OptionRecord(r) == Structural(r) /\ r.trade_type \in {OPTION_CALL, OPTION_PUT}

\* line k of doc, trimmed and without NUL characters
Clean(doc, k) == Strip(RemoveNul(Strip(LineAt(doc, k))))

IsD(doc, k) == StartsWith(Clean(doc, k), "D:")

IsMarker(doc, k) == StartsWith(Clean(doc, k), "SP ") \/ StartsWith(Clean(doc, k), "L:")

\* the description made of the lines from, to - 1: a D: line gives its
\* remainder when stripAll holds or it is the first, any other line itself
BlockText(doc, from, to, stripAll) ==
    Join([n \in 1..(to - from) |->
            LET k == from + n - 1
            IN  IF IsD(doc, k) /\ (stripAll \/ k = from)
                THEN Strip(Sub(Clean(doc, k), 3, Len(Clean(doc, k))))
                ELSE Clean(doc, k)])

\* the description as stated: from the first D: line after j to the next
\* marker line, however far away they are
WholeBlock(doc, j) ==
    LET ds == {k \in (j + 1)..(Len(doc) - 1) : IsD(doc, k)}
    IN  IF ds = {} THEN ""
        ELSE LET d == Min(ds)
                 ends == {k \in (d + 1)..(Len(doc) - 1) : IsMarker(doc, k)}
             IN  BlockText(doc, d, IF ends = {} THEN Len(doc) ELSE Min(ends), FALSE)

\* the description within the lines j+1 .. j+9: nothing when an SP line comes
\* before the first D: line, the block cut at the end of the window
WindowBlock(doc, j) ==
    LET last == Least(j + 9, Len(doc) - 1)
        ds == {k \in (j + 1)..last : IsD(doc, k)}
        sps == {k \in (j + 1)..last : StartsWith(Clean(doc, k), "SP ")}
    IN  IF ds = {} \/ (sps # {} /\ Min(sps) < Min(ds)) THEN ""
        ELSE LET d == Min(ds)
                 ends == {k \in (d + 1)..last : IsMarker(doc, k)}
             IN  BlockText(doc, d, IF ends = {} THEN last + 1 ELSE Min(ends), TRUE)

C8_ExtractorNeverRaises == \A p \in Parsers : pc[p] # "raised"

\* C8: a candidate that is both the first and the last line, with no
\* lookahead line, has given no record and the parse has returned
C8_Witness ==
    \E p \in Parsers :
        /\ pc[p] = "idle"
        /\ Len(lines[p]) = 1
        /\ SearchLead(lines[p][1], TRUE).matched
        /\ candidates[p] = {0}
        /\ trades[p] = <<>>
        /\ log # <<>>

\* C9: two parses of the same line sequence, by one instance or by two, in
\* any interleaving with parses of other documents, return the same records.
C9_Idempotent ==
    \A a, b \in 1..Len(log) :
        log[a].lines = log[b].lines => log[a].trades = log[b].trades

\* C9: a document parsed twice with records, another one parsed in between
C9_Witness ==
    \E a, b, c \in 1..Len(log) :
        /\ a < b /\ b < c
        /\ log[a].lines = log[c].lines
        /\ log[b].lines # log[a].lines
        /\ log[a].trades # <<>>
        /\ log[b].trades # <<>>

\* C10: every emitted record, whichever path made it, has an asset_name that
\* is not empty once trimmed and an action that is 'BUY' or 'SELL'.
C10_AssetAndAction ==
    \A p \in Parsers : \A k \in 1..Len(trades[p]) :
        /\ Strip(trades[p][k].asset_name) # ""
        /\ trades[p][k].action \in {"BUY", "SELL"}

\* C10: one document has given a record on each of the four paths
C10_Witness ==
    \E p \in Parsers :
        /\ Len(trades[p]) = 4
        /\ SearchSingleLine(trades[p][1].raw_line).matched
        /\ trades[p][2].ticker = "WDG"
        /\ trades[p][3].ticker = "N/A"
        /\ "filing_date" \in DOMAIN trades[p][4]

\* every record parser p holds
Records(p) == {trades[p][k] : k \in 1..Len(trades[p])}

\* a string of 1 to 5 uppercase letters
IsTickerText(t) == Len(t) >= 1 /\ Len(t) <= 5 /\ CharsOf(t) \subseteq UpperSet

\* C11: in every emitted record, from the structural shapes and from the
\* heuristic fallback alike, ticker is 'N/A' or 1 to 5 uppercase letters, and
\* never the empty string.
C11_TickerNAOrLetters ==
    \A p \in Parsers : \A r \in Records(p) : r.ticker = "N/A" \/ IsTickerText(r.ticker)

\* the results of the candidate lines of doc that are records, in line order
ParseOutput(doc) ==
    LET result(j) == parse_trade_line(LineAt(doc, j), doc, j)
        kept == SelectSeq([k \in 1..Len(doc) |-> k - 1],
                          LAMBDA j : is_trade_line(LineAt(doc, j)) /\ result(j) # NoTrade)
    IN  [k \in 1..Len(kept) |-> result(kept[k])]

\* C12: what a document parse returns is the sequence of the records that its
\* candidate lines give, in line order and at most one for a line; a line
\* that is rejected or gives none changes nothing else, and the result is the
\* empty list when no line qualifies or there is no line.
C12_OutputInLineOrder ==
    /\ \A k \in 1..Len(log) : log[k].trades = ParseOutput(log[k].lines)
    /\ \A p \in Parsers :
          /\ pc[p] # "raised"
          /\ Len(origins[p]) = Len(trades[p])
          /\ \A a, b \in 1..Len(origins[p]) : a < b => origins[p][a] < origins[p][b]

\* C12: a parse has returned two records that had a rejected line and a
\* candidate line without a record between them
C12_Witness ==
    \E k \in 1..Len(log) : \E p \in Parsers :
        /\ pc[p] = "idle" /\ lines[p] = log[k].lines
        /\ Len(log[k].trades) = 2
        /\ origins[p] = <<0, 3>>
        /\ candidates[p] = {0, 1, 3}

\* an MM/DD/YYYY string, or the sentinel
DateOrUnknown(d) == d = "Unknown" \/ (Len(d) = 10 /\ MatchDate(d, 1) = 11)

\* C13: every emitted record, whichever path made it, has a transaction_date
\* and a notification_date, each an MM/DD/YYYY string or "Unknown".
C13_BothDatesPresent ==
    \A p \in Parsers : \A r \in Records(p) :
        /\ "transaction_date" \in DOMAIN r /\ DateOrUnknown(r.transaction_date)
        /\ "notification_date" \in DOMAIN r /\ DateOrUnknown(r.notification_date)

\* C14: a dry run downloads nothing and saves nothing: no step of a run with
\* dry_run = true changes the filings table, the trades table or the set of
\* downloaded PDFs.
C14_DryRunSavesNothing ==
    [][dry_run' => /\ filings' = filings
                   /\ tradeRows' = tradeRows
                   /\ downloads' = downloads]_vars

\* C15: a record is emitted only with an asset_name longer than 2 characters
\* and a resolved action, on every extraction path: no record has an
\* asset_name of 1 or 2 characters.
C15_AssetNameLongerThanTwo ==
    \A p \in Parsers : \A r \in Records(p) :
        Len(r.asset_name) > 2 /\ r.action \in {"BUY", "SELL"}

\* the amount texts _extract_amount_range can be asked for, written out:
\* what the cascade of the description yields for each prose amount
CascadeOf(m) ==
    IF m = "" THEN "Unknown"
    ELSE IF m = " $1,001-$15,000" \/ m = " $1,001-15,000" \/ m = " $1,001 to $15,000"
    THEN "$1,001-$15,000"
    ELSE IF m = " $1,001" THEN "$1,001"
    ELSE IF m = " Over $1,000,000" THEN "Over $1,000,000"
    ELSE IF m = " Under $1,000" THEN "Under $1,000"
    ELSE IF m = " Over 1,000" THEN "Unknown"
    ELSE "$15,000"

\* C16: on the heuristic path Over $<n> yields "Over $<n>", Under $<n> yields
\* "Under $<n>", $<n1> to $<n2> and $<n1>-$<n2> and $<n1>-<n2> yield
\* "$<n1>-$<n2>", a lone $<n1> yields "$<n1>", and "Unknown" is the result
\* only when the line has none of these.
C16_AmountCascade ==
    \A p \in Parsers : \A j \in Processed(p) : \A m \in ProseAmounts :
        LineAt(lines[p], j) = Prose \o m
        => /\ EmittedFor(p, j) # NoTrade
           /\ EmittedFor(p, j).amount_range = CascadeOf(m)

\* C17: a lead-token line that carries the complete amount "$<lo> - $<hi>" and
\* whose next line has no parenthesized ticker yields a record whose
\* amount_range is that expression as written; no $ token of the next line is
\* appended.
C17_CompleteRangeAsWritten ==
    \A p \in Parsers : \A j \in Processed(p) :
        \A a \in AssetNames, c \in ActionCodes :
            (/\ LineAt(lines[p], j) = LeadLine(a, c, "", Lo \o " - " \o Hi)
             /\ j + 1 < Len(lines[p])
             /\ SearchTicker(LineAt(lines[p], j + 1)).start = 0
             /\ Structural(EmittedFor(p, j)))
            => EmittedFor(p, j).amount_range = Lo \o " - " \o Hi

\* C18: a lead-token line with the single amount $<lo>, no trailing dash,
\* followed by a ticker line yields a record whose amount_range is exactly
\* $<lo>, even when the ticker line holds a $ token.
C18_SingleAmountKept ==
    \A p \in Parsers : \A j \in Processed(p) :
        \A a \in AssetNames, c \in ActionCodes, k \in PartialMarkers :
            (/\ LineAt(lines[p], j) = LeadLine(a, c, k, Lo)
             /\ j + 1 < Len(lines[p])
             /\ SearchTicker(LineAt(lines[p], j + 1)).start > 0
             /\ Structural(EmittedFor(p, j)))
            => EmittedFor(p, j).amount_range = Lo

\* group 6 of the single-line pattern for an amount as written: $<lo> and
\* the dash that follows it, if any
CapturedAmount(m) ==
    IF m = Lo THEN Lo ELSE IF m = Lo \o "-" \o Hi THEN Lo \o "-" ELSE Lo \o " -"

\* s[a..b] is a $ followed by a maximal run of digits and commas
IsDollarToken(s, a, b) ==
    /\ Ch(s, a) = "$"
    /\ a < b
    /\ \A q \in (a + 1)..b : Ch(s, q) \in NumSet
    /\ Ch(s, b + 1) \notin NumSet

\* the leftmost $<number> token of s, "" when s has none
FirstDollarToken(s) ==
    IF \E a, b \in 1..Len(s) : IsDollarToken(s, a, b)
    THEN LET a == CHOOSE x \in 1..Len(s) :
                      /\ \E b \in 1..Len(s) : IsDollarToken(s, x, b)
                      /\ \A y \in 1..(x - 1) : \A b \in 1..Len(s) : ~IsDollarToken(s, y, b)
             b == CHOOSE y \in 1..Len(s) : IsDollarToken(s, a, y)
         IN  SubSeq(s, a, b)
    ELSE ""

\* the $ token the completion can use: that of the line after line j
TokenAfter(p, j) ==
    IF j + 1 < Len(lines[p]) THEN FirstDollarToken(LineAt(lines[p], j + 1)) ELSE ""

\* C19: for a single-line full form whose captured amount ends in a dash and
\* that has a next line with a $<number> token, amount_range is the captured
\* amount, one space, and the leftmost such token of the next line; when the
\* captured amount has no dash, or there is no next line, or the next line has
\* no $ token, amount_range is the captured amount unchanged.
C19_SingleLineCompletion ==
    \A p \in Parsers : \A j \in Processed(p) :
        \A a \in AssetNames, t \in Tickers, c \in ActionCodes, m \in Amounts :
            LineAt(lines[p], j) = FullLine(a, t, c, m)
            => /\ EmittedFor(p, j) # NoTrade
               /\ EmittedFor(p, j).amount_range =
                     IF EndsWith(CapturedAmount(m), "-") /\ TokenAfter(p, j) # ""
                     THEN CapturedAmount(m) \o " " \o TokenAfter(p, j)
                     ELSE CapturedAmount(m)

\* a dangling dash completed from a next line with two $ tokens
C19_Witness ==
    \E p \in Parsers : \E j \in Processed(p) :
        /\ LineAt(lines[p], j) = FullLine("WIDGET CO", "WDG", "P", Lo \o " -")
        /\ j + 1 < Len(lines[p])
        /\ LineAt(lines[p], j + 1) = "F $15,000 $9"
        /\ EmittedFor(p, j) # NoTrade
        /\ EmittedFor(p, j).amount_range = "$1,001 - $15,000"

\* line j of the document of p has one of the three shapes of the Field
\* Extractor: the single-line full form, or the lead-token form (with or
\* without the (partial) marker) followed by a line with or without a ticker
HasShape(p, j) ==
    \/ SearchSingleLine(LineAt(lines[p], j)).matched
    \/ SearchLead(LineAt(lines[p], j), TRUE).matched /\ j + 1 < Len(lines[p])

\* C20: the shapes are tried in the order single-line, ticker-on-next-line,
\* no-ticker and the record of the first that matches is returned; a record of
\* the heuristic fallback is produced only for a line that has none of the
\* three shapes.
C20_ShapePrecedence ==
    \A p \in Parsers : \A j \in Processed(p) :
        /\ SearchSingleLine(LineAt(lines[p], j)).matched
           => /\ Structural(EmittedFor(p, j))
              /\ EmittedFor(p, j).ticker = SearchSingleLine(LineAt(lines[p], j)).ticker
        /\ (EmittedFor(p, j) # NoTrade /\ ~Structural(EmittedFor(p, j))) => ~HasShape(p, j)

\* some line of the window j .. j+4 of the document of p, clipped at its end,
\* holds kw when uppercased
WindowHas(p, j, kw) ==
    \E k \in 0..4 : j + k < Len(lines[p]) /\ Contains(Upper(LineAt(lines[p], j + k)), kw)

\* the kind that the lines j .. j+4 alone give
KindOfWindow(p, j) ==
    IF WindowHas(p, j, "CALL") THEN OPTION_CALL
    ELSE IF WindowHas(p, j, "PUT") THEN OPTION_PUT
    ELSE IF \E kw \in {"OPTION", "STRIKE", "EXPIRATION"} : WindowHas(p, j, kw) THEN OPTION_CALL
    ELSE STOCK

\* C21: the kind of a structural record for line j is a function of the lines
\* j .. j+4 only, clipped at the end of the document and not cut short by the
\* SP line of a following record: option_call if CALL occurs in them
\* (uppercased), else option_put if PUT occurs, else option_call if OPTION,
\* STRIKE or EXPIRATION occurs, else stock; the lines before j and from j+5 on
\* never change it.
C21_KindFromWindow ==
    \A p \in Parsers : \A j \in Processed(p) :
        Structural(EmittedFor(p, j)) => EmittedFor(p, j).trade_type = KindOfWindow(p, j)

\* an option put whose window holds PUT while the line at offset 5 holds CALL
C21_Witness ==
    \E p \in Parsers : \E j \in Processed(p) :
        /\ Structural(EmittedFor(p, j))
        /\ EmittedFor(p, j).trade_type = OPTION_PUT
        /\ WindowHas(p, j, "PUT")
        /\ j + 5 < Len(lines[p])
        /\ Contains(LineAt(lines[p], j + 5), "CALL")

\* the line, whatever its case, holds one of the words
HoldsAny(line, words) == \E w \in words : Contains(Upper(line), w)

\* the keyword test of the Line Classifier
KeywordCandidate(line) ==
    /\ HoldsAny(line, {"BUY", "SELL", "PURCHASE", "SALE", "ACQUIRED", "DISPOSED"})
    /\ HoldsAny(line, {"INC", "CORP", "LLC", "ETF", "STOCK", "SHARES"})
    /\ ~HoldsAny(line, {"DATE", "ASSET", "ACTION", "AMOUNT", "---", "TOTAL", "SUMMARY"})

\* C22: a line that matches none of the three structural shape patterns is a
\* candidate if and only if, whatever its case, it holds an action keyword and
\* an asset-type keyword and no header or footer keyword.
C22_KeywordFallback ==
    \A p \in Parsers : \A j \in Processed(p) :
        ~MatchesShape(LineAt(lines[p], j))
        => (j \in candidates[p] <=> KeywordCandidate(LineAt(lines[p], j)))

\* a prose row in lower case accepted by the keyword test
C22_Witness ==
    \E p \in Parsers : \E j \in Processed(p) :
        /\ ~MatchesShape(LineAt(lines[p], j))
        /\ LineAt(lines[p], j) = "disposed of Acme etf"
        /\ j \in candidates[p]

\* s[a..b] is a token MM/DD/YYYY: one or two digits, a slash, one or two
\* digits, a slash, four digits, with no word character on either side
IsDateToken(s, a, b) ==
    \E m, d \in 1..2 :
        /\ b = a + m + d + 5
        /\ \A q \in a..(a + m - 1) : Ch(s, q) \in DigitSet
        /\ Ch(s, a + m) = "/"
        /\ \A q \in (a + m + 1)..(a + m + d) : Ch(s, q) \in DigitSet
        /\ Ch(s, a + m + d + 1) = "/"
        /\ \A q \in (a + m + d + 2)..b : Ch(s, q) \in DigitSet
        /\ Ch(s, a - 1) \notin WordSet
        /\ Ch(s, b + 1) \notin WordSet

HasDateToken(s) == \E a, b \in 1..Len(s) : IsDateToken(s, a, b)

\* the leftmost date token of s
FirstDateToken(s) ==
    LET a == CHOOSE x \in 1..Len(s) :
                 /\ \E b \in 1..Len(s) : IsDateToken(s, x, b)
                 /\ \A y \in 1..(x - 1) : \A b \in 1..Len(s) : ~IsDateToken(s, y, b)
        b == CHOOSE y \in 1..Len(s) : IsDateToken(s, a, y)
    IN  SubSeq(s, a, b)

\* the lines j-2 .. j+2 of the document of p that hold a date token
DatedNear(p, j) ==
    {k \in (j - 2)..(j + 2) : k >= 0 /\ k < Len(lines[p]) /\ HasDateToken(LineAt(lines[p], k))}

\* the date of the claim for line j
ResolvedDate(p, j) ==
    IF HasDateToken(LineAt(lines[p], j)) THEN FirstDateToken(LineAt(lines[p], j))
    ELSE IF DatedNear(p, j) # {}
    THEN FirstDateToken(LineAt(lines[p], CHOOSE k \in DatedNear(p, j) :
                                             \A n \in DatedNear(p, j) : k <= n))
    ELSE "Unknown"

\* a record of the heuristic fallback
Heuristic(r) == r # NoTrade /\ ~Structural(r)

\* C23: the transaction_date of a record of the heuristic path is the first
\* MM/DD/YYYY token of its line if the line has one, otherwise the first token
\* of the first line that has one among the lines index-2 .. index+2 in
\* ascending order, clipped to the document, otherwise "Unknown"; the lines
\* outside that window never supply it.
C23_TransactionDateWindow ==
    \A p \in Parsers : \A j \in Processed(p) :
        Heuristic(EmittedFor(p, j))
        => EmittedFor(p, j).transaction_date = ResolvedDate(p, j)

\* a prose row without a date that takes it from the line before it, while the
\* lines three before and one after hold other dates
C23_Witness ==
    \E p \in Parsers : \E j \in Processed(p) :
        /\ Heuristic(EmittedFor(p, j))
        /\ j >= 3
        /\ ~HasDateToken(LineAt(lines[p], j))
        /\ HasDateToken(LineAt(lines[p], j - 3))
        /\ ~HasDateToken(LineAt(lines[p], j - 2))
        /\ j + 1 < Len(lines[p])
        /\ HasDateToken(LineAt(lines[p], j + 1))
        /\ EmittedFor(p, j).transaction_date = "3/3/2023"

\* s[a..b] is a run of uppercase words of two letters or more, separated by
\* white space, with no word character on either side
IsUpperRun(s, a, b) ==
    /\ a <= b
    /\ \A q \in a..b : Ch(s, q) \in UpperSet \cup Whitespace
    /\ Ch(s, a - 1) \notin WordSet
    /\ Ch(s, b + 1) \notin WordSet
    /\ \A q \in a..b :
          Ch(s, q) \in UpperSet
          => (q > a /\ Ch(s, q - 1) \in UpperSet) \/ (q < b /\ Ch(s, q + 1) \in UpperSet)
    /\ Ch(s, a) \in UpperSet
    /\ Ch(s, b) \in UpperSet

\* the longest such run of s, the leftmost of the longest
LongestRun(s) ==
    LET runs == {ab \in (1..Len(s)) \X (1..Len(s)) : IsUpperRun(s, ab[1], ab[2])}
        best == CHOOSE x \in runs :
                    \A y \in runs : \/ y[2] - y[1] < x[2] - x[1]
                                    \/ (y[2] - y[1] = x[2] - x[1] /\ x[1] <= y[1])
    IN  SubSeq(s, best[1], best[2])

\* the text of the parenthesized group of 1 to 5 uppercase letters of s
TickerGroup(s) == IF SearchTicker(s).start > 0 THEN SearchTicker(s).ticker ELSE None

\* C24: on the heuristic stock path a line with several separate runs of
\* uppercase words gives the longest run as asset_name, not merely the first,
\* and the ticker of a parenthesized 1-5 letter group if it has one.
C24_LongestRunIsAsset ==
    \A p \in Parsers : \A j \in Processed(p) :
        (/\ LineAt(lines[p], j) \in RunLines
         /\ Heuristic(EmittedFor(p, j))
         /\ EmittedFor(p, j).trade_type = STOCK)
        => /\ EmittedFor(p, j).asset_name = LongestRun(LineAt(lines[p], j))
           /\ EmittedFor(p, j).ticker = TickerGroup(LineAt(lines[p], j))

\* C25: every line SP <AssetName> <P|S> [(partial)] <date1> <date2> $<amount>
\* whose next line has no parenthesized ticker yields a record with ticker
\* 'N/A', with the (partial) marker as without it, and is not skipped.
C25_NoTickerCoversPartial ==
    \A p \in Parsers : \A j \in Processed(p) :
        \A a \in {"WIDGET CO", "GOVERNMENT MONEY FUND"}, c \in ActionCodes,
           k \in PartialMarkers, m \in Amounts :
            (/\ LineAt(lines[p], j) = LeadLine(a, c, k, m)
             /\ j + 1 < Len(lines[p])
             /\ SearchTicker(LineAt(lines[p], j + 1)).start = 0)
            => /\ Structural(EmittedFor(p, j))
               /\ EmittedFor(p, j).ticker = "N/A"

\* line j is a lead-token line, not a single-line full form, and the last
\* line of the document of p
LastLeadLine(p, j) ==
    /\ j = Len(lines[p]) - 1
    /\ SearchLead(LineAt(lines[p], j), TRUE).matched
    /\ ~SearchSingleLine(LineAt(lines[p], j)).matched

\* the Buy and Sell keywords of the heuristic path
BuySellKeywords ==
    {"BUY", "PURCHASE", "ACQUIRED", "ACQUISITION", "SELL", "SALE", "DISPOSED", "DISPOSAL"}

\* C26: a lead-token line that is the last line of the document, with no line
\* index+1, gives no structural record: the result is none unless the line
\* itself holds a Buy or Sell keyword, and the parse does not raise.
C26_LastLeadLine ==
    \A p \in Parsers :
        /\ pc[p] # "raised"
        /\ \A j \in Processed(p) :
              LastLeadLine(p, j)
              => /\ ~Structural(EmittedFor(p, j))
                 /\ ~HoldsAny(LineAt(lines[p], j), BuySellKeywords) => EmittedFor(p, j) = NoTrade

\* a lead-token line without keyword, last of two lines, has been processed
\* as a candidate and has given no record
C26_Witness ==
    \E p \in Parsers : \E j \in Processed(p) :
        /\ j >= 1
        /\ LastLeadLine(p, j)
        /\ ~HoldsAny(LineAt(lines[p], j), BuySellKeywords)
        /\ j \in candidates[p]
        /\ EmittedFor(p, j) = NoTrade
        /\ EmittedFor(p, j - 1) # NoTrade

Success(r) == r.raised = "nothing" /\ r.status_code \in {200, 204}
RateLimited(r) == r.raised = "nothing" /\ r.status_code = 429
NetworkError(r) == r.raised = "RequestException"
ErrorStatus(r) == r.raised = "nothing" /\ r.status_code \notin {200, 204, 429}

\* C27: _send_discord_message makes at most max_retries POST attempts; it
\* returns True exactly when an attempt receives 200 or 204, and that attempt
\* is the last; an error status other than 429 is the last attempt and False
\* is returned; a 429 response or a network error is followed by another
\* attempt until max_retries attempts are made, and then False is returned.
C27_SendWithinRetries ==
    /\ Len(responses) <= max_retries
    /\ \A k \in 1..Len(responses) :
          /\ Success(responses[k]) => k = Len(responses) /\ returned = "True"
          /\ ErrorStatus(responses[k]) => k = Len(responses) /\ returned = "False"
          /\ (RateLimited(responses[k]) \/ NetworkError(responses[k]))
             => \/ k < Len(responses)
                \/ npc = "loop"
                \/ (Len(responses) = max_retries /\ returned = "False")
    /\ returned = "True" => responses # <<>> /\ Success(responses[Len(responses)])

\* the positions of the already-processed filings in the scraped list l
ProcessedAt(db, l) == {k \in 1..Len(l) : \E f \in db : f.filing_id = l[k]}

\* the filings of l before the first processed one, all of l when there is none
BeforeFirstProcessed(db, l) ==
    IF ProcessedAt(db, l) = {} THEN l
    ELSE SubSeq(l, 1, (CHOOSE k \in ProcessedAt(db, l) : \A n \in ProcessedAt(db, l) : k <= n) - 1)

\* what the claim gives for the database db and the outcome sc of the scrape
ExpectedNew(db, sc) ==
    IF sc.raised THEN <<>>
    ELSE IF ProcessedAt(db, sc.all_filings) = {} /\ Len(sc.all_filings) > 2
    THEN SubSeq(sc.all_filings, 1, 2)
    ELSE BeforeFirstProcessed(db, sc.all_filings)

\* C28: _find_new_filings returns, in scraped order, exactly the filings that
\* precede the first already-processed filing of the scraped list, cut to the
\* first 2 when no processed filing is met and more than 2 were found; no
\* returned filing is already processed, and the result is empty when the
\* scrape fails.
C28_NewFilings ==
    [][runsLeft' # runsLeft
       => /\ queue' = ExpectedNew(filings, scraped')
          /\ \A k \in 1..Len(queue') : ~\E f \in filings : f.filing_id = queue'[k]]_vars

\* three new filings returned, all those before a processed one, none
\* handled yet
C28_Witness ==
    /\ tpc = "processing"
    /\ ~scraped.raised
    /\ Len(scraped.all_filings) = 4
    /\ queue = SubSeq(scraped.all_filings, 1, 3)
    /\ \E f \in filings : f.filing_id = scraped.all_filings[4]

\* the filings of a listing that are PTR filings, by position
PtrPositions(l) == {k \in 1..Len(l) : l[k].is_ptr}

\* the politician's most recent PTR filing of a newest-first listing
MostRecentPtr(l) == l[CHOOSE k \in PtrPositions(l) : \A j \in PtrPositions(l) : k <= j].filing_id

\* the filings table of politician_trades.db has a row for the filing
Recorded(db, filing_id) == \E f \in db : f.filing_id = filing_id

\* C29: a call of _process_politician_filings handles at most one filing, and
\* when the most recent PTR filing of the newest-first list is not yet
\* processed, that filing is the one handled
C29_MostRecentPtrHandled ==
    [][(mpc = "processing" /\ mqueue # <<>> /\ mqueue' = Tail(mqueue)) =>
          /\ Len(mhandled') <= Len(mhandled) + 1
          /\ (/\ PtrPositions(Head(mqueue).filings) # {}
              /\ ~Recorded(mfilings, MostRecentPtr(Head(mqueue).filings)))
             => mhandled' = Append(mhandled, MostRecentPtr(Head(mqueue).filings))]_vars

\* C30: in both trackers a filing recorded as processed when it is examined
\* is not handled again, and the filings table never holds two rows of one
\* filing_id
C30_ProcessedNeverHandledAgain ==
    /\ [](\A f, g \in filings : f.filing_id = g.filing_id => f = g)
    /\ [](\A f, g \in mfilings : f.filing_id = g.filing_id => f = g)
    /\ [][(queue # <<>> /\ queue' = Tail(queue)) =>
             ~is_filing_processed(filings, Head(queue))]_vars
    /\ [][mhandled' # mhandled =>
             ~Recorded(mfilings, mhandled'[Len(mhandled')])]_vars
====
